---- MODULE Spec2Model ----
(***************************************************************************)
(* ghostpipe: two-way synchronisation of local files with the `files` map  *)
(* of one replicated document per configured interface.                    *)
(*                                                                         *)
(* The model follows the permission-based program of src/bin/ghostpipe.js  *)
(* (lines 761-918): `connect` wires one document observer per interface    *)
(* and one chokidar watcher for all interfaces; three debounced functions  *)
(* (debouncedAdd, debouncedChange, debouncedWriteFile) carry the changes   *)
(* across; WRITES is the table of suppression records.                     *)
(*                                                                         *)
(* Strings that the code takes apart (declarations, paths) are sequences   *)
(* of one-character strings.  File contents are small naturals.            *)
(***************************************************************************)
EXTENDS Naturals, Integers, Sequences, FiniteSets, TLC

\* ------------------------------------------------------------------ bounds
MaxLocal == 1        \* local edits / deletions made by the user
MaxRemote == 2       \* transactions received from remote peers
MaxContent == 2      \* distinct file contents 1..MaxContent

Interfaces == {1, 2} \* positions in config.interfaces
Content == 1..MaxContent
Absent == 0          \* no file on disk / no key in a map (undefined)

\* ------------------------------------------------------------ path strings
P_yml == <<"a", ".", "y", "m", "l">>          \* api.yml, shortened
P_txt == <<"n", ".", "t", "x", "t">>          \* a file no glob below matches
Paths == {P_yml, P_txt}

\* ----------------------------------------------------- declaration strings
D_yml_r == <<"*", ".", "y", "m", "l", " ", "r">>
D_yml_w == <<"*", ".", "y", "m", "l", " ", "w">>
D_yml_rw == <<"*", ".", "y", "m", "l", " ", "r", "w">>

\* The runs that are explored: the `files` arrays of the two interfaces of
\* .ghostpipe.json, the files that exist or come to exist in the working
\* directory during the run, and the --diff option ("none" when not given).
Scenarios ==
    { [files |-> <<<<D_yml_r>>, <<D_yml_w>>>>, paths |-> {P_yml},
       diff |-> "main"],
      [files |-> <<<<D_yml_rw>>, <<D_yml_rw>>>>, paths |-> {P_yml},
       diff |-> "none"],
      [files |-> <<<<D_yml_r>>, <<D_yml_rw>>>>, paths |-> {P_txt},
       diff |-> "main"] }

\* `git show <diff>:<file>`: the content of the file at the base branch
\* (both files are in that branch)
GitShow(file) == IF file = P_yml THEN 1 ELSE 2

VARIABLES
    intfFiles,   \* intf.files of every interface (config, immutable)
    paths,       \* the files of the working directory in this run (immutable)
    diff,        \* the --diff option: "none" or "main" (immutable)
    files,       \* ydoc.getMap('files') of every interface
    baseFiles,   \* ydoc.getMap('base-files') of every interface
    disk,        \* the working directory: path -> content or Absent
    WRITES,      \* keys of the WRITES table whose value is true
    timers,      \* pending setTimeout callbacks, in scheduling order
    fsEvents,    \* raw filesystem notifications chokidar has not emitted yet
    crashed,     \* an exception escaped a timer callback: the process died
    nLocal,      \* number of local edits so far
    nRemote,     \* number of remote transactions so far
    fingerprint, \* history: content written to disk when a record was made
    echo,        \* history: where the event of a remote-triggered write is
    prevChange,  \* history: what the latest debouncedChange run did per
                 \* interface (0 equal, 1 wrote, 2 skipped), -1 once the
                 \* file or the entry has been changed since
    author,      \* history: who set the current value of a `files` entry
    last,        \* history: what the last step did
    \* --- the `diff` command (createDiffSession) and the shutdown handler
    config,      \* config.interfaces of .ghostpipe.json (immutable)
    git,         \* the repository: checked-out branch and committed trees
    headFiles,   \* ydoc.getMap('head-files') of every diff session
    metadata,    \* ydoc.getMap('metadata') of every diff session
    provider,    \* the WebrtcProvider of every session
    watcher,     \* the chokidar watcher of every diff session
    watchEvents, \* events each watcher has noticed and not yet emitted
    pc,          \* where the process is: "off", "start", "running", "exited"
    exitCode,    \* the argument of process.exit, NoExit while running
    teardownLog, \* history: the destroy() and close() calls, in order
    destroyThrows, \* input: the sessions whose provider.destroy() throws
    \* --- a call of a pure function
    pureIn,      \* the arguments of the call
    pureOut,     \* its result, Pending until it has been made
    \* --- the fs.watch watchers of a diff session (ghostpipe.v4.js)
    inode,       \* the file each path names: its inode number, 0 for none
    nextInode,   \* the inode number the next new file gets
    watchedFiles, \* the Map watchedFiles: path -> its watcher, 0 for no entry
    fsWatchers,  \* every watcher fs.watch has returned, in order of creation
    watchTimeout, \* the pending 100 ms timer of each path: its event type
    rearm,       \* the pending 50 ms timers that make a new watcher
    watchThrows, \* input: the paths for which fs.watch throws
    \* --- the file-sharing sessions (createSession)
    updatingFromGUI, \* the flag of setupFileSync of every session
    sessionWatch \* the paths the chokidar watcher of every session watches

\* the variables of `connect` that the other programs do not use
syncVars == <<intfFiles, paths, diff, files, WRITES, timers, fsEvents, crashed,
              nRemote, fingerprint, echo, prevChange, author>>

diffVars == <<config, git, headFiles, metadata, provider, watcher, watchEvents,
              pc, exitCode, teardownLog, destroyThrows>>

pureVars == <<pureIn, pureOut>>

watchVars == <<inode, nextInode, watchedFiles, fsWatchers, watchTimeout, rearm,
               watchThrows>>

shareVars == <<updatingFromGUI, sessionWatch>>

vars == <<syncVars, baseFiles, disk, nLocal, last, diffVars, pureVars, watchVars, shareVars>>

\* ------------------------------------------------------------- pure helpers

\* String.prototype.split(' ')
RECURSIVE SplitFrom(_, _, _)
SplitFrom(s, k, cur) ==
    IF k > Len(s) THEN <<cur>>
    ELSE IF s[k] = " " THEN <<cur>> \o SplitFrom(s, k + 1, <<>>)
    ELSE SplitFrom(s, k + 1, Append(cur, s[k]))

Split(s) == SplitFrom(s, 1, <<>>)

\* the falsy values of a destructured token: undefined or the empty string
Falsy(tok) == tok = <<>>

Token(toks, k) == IF k <= Len(toks) THEN toks[k] ELSE <<>>

\* mutant: the third token is the permissions, whatever the number of tokens
fileString_thirdToken(string) ==
    LET toks == Split(string)
    IN [glob |-> Token(toks, 1), map |-> Token(toks, 2),
        permissions |-> Token(toks, 3)]

fileString(string) ==
    LET toks == Split(string)
        glob == Token(toks, 1)
        map == Token(toks, 2)
        permissions == Token(toks, 3)
    IN [glob |-> glob,
        map |-> IF Falsy(permissions) THEN <<>> ELSE map,
        permissions |-> IF Falsy(permissions) THEN map ELSE permissions]

\* minimatch(file, glob) for globs made of literal characters and `*`
\* (`*` matches any run of characters other than `/`)
RECURSIVE minimatch(_, _)
minimatch(file, glob) ==
    IF glob = <<>> THEN file = <<>>
    ELSE IF Head(glob) = "*"
         THEN \/ minimatch(file, Tail(glob))
              \/ /\ file # <<>>
                 /\ Head(file) # "/"
                 /\ minimatch(Tail(file), glob)
         ELSE /\ file # <<>>
              /\ Head(file) = Head(glob)
              /\ minimatch(Tail(file), Tail(glob))

Includes(str, ch) == \E k \in 1..Len(str) : str[k] = ch

\* mutants of hasPermission
\* `||` in place of `&&`
hasPermission_or(permission, patterns, file) ==
    \E k \in 1..Len(patterns) :
        LET fs == fileString(patterns[k])
        IN Includes(fs.permissions, permission) \/ minimatch(file, fs.glob)

\* the permission letters are not looked at
hasPermission_anyPermission(permission, patterns, file) ==
    \E k \in 1..Len(patterns) :
        LET fs == fileString(patterns[k])
        IN minimatch(file, fs.glob)

\* the glob is not looked at
hasPermission_noGlob(permission, patterns, file) ==
    \E k \in 1..Len(patterns) :
        LET fs == fileString(patterns[k])
        IN Includes(fs.permissions, permission)

\* the glob of one declaration and the permissions of another are combined
hasPermission_crossDeclaration(permission, patterns, file) ==
    /\ \E k \in 1..Len(patterns) :
          Includes(fileString(patterns[k]).permissions, permission)
    /\ \E k \in 1..Len(patterns) :
          minimatch(file, fileString(patterns[k]).glob)

hasPermission(permission, patterns, file) ==
    \E k \in 1..Len(patterns) :
        LET fs == fileString(patterns[k])
        IN Includes(fs.permissions, permission) /\ minimatch(file, fs.glob)


\* ------------------------------------------------------- tables and timers

\* the key `${ydoc.guid}-${path}` of the WRITES table; the guid of the
\* document of interface i is i
\* mutant: the table is keyed by the path alone
WritesKey_pathOnly(i, path) == <<0, path>>

WritesKey(i, path) == <<i, path>>

NoFingerprint == -1

\* the delay of each debounced function, in milliseconds
Delay(fn) == IF fn = "add" THEN 200 ELSE 300

\* mutant: a debounced function has one timer for all keys
debounceByKey_oneTimer(q, t) ==
    SelectSeq(q, LAMBDA x : x.fn # t.fn) \o <<t>>

\* debounceByKey: every debounced function has its own `timers` map, keyed by
\* its first argument; a call clears the pending timer of that key and sets
\* a new one.  `timers` lists the pending timers of all three functions in
\* the order they were set.
debounceByKey(q, t) ==
    SelectSeq(q, LAMBDA x : ~(x.fn = t.fn /\ x.key = t.key)) \o <<t>>

\* setTimeout: the timer at position k may run when no timer set before it
\* with a delay that is not longer is still pending
Due(q, k) == \A j \in 1..(k - 1) : Delay(q[j].fn) > Delay(q[k].fn)

RemoveAt(q, k) == SubSeq(q, 1, k - 1) \o SubSeq(q, k + 1, Len(q))

Timer(fn, key, intf) == [fn |-> fn, key |-> key, intf |-> intf]

\* ---------------------------------------------------- the working registers
\* of one handler run: the maps it changes and what it did (for `last`)
Regs ==
    [files |-> files, baseFiles |-> baseFiles, WRITES |-> WRITES,
     timers |-> timers, author |-> author,
     sets |-> {}, base |-> {}, skipped |-> {}]

\* addDiffFile({intf, diff, file})
addDiffFile(st, i, file) ==
    IF diff = "none" THEN st
    ELSE IF GitShow(file) = Absent THEN st
    ELSE [st EXCEPT !.baseFiles[i][file] = GitShow(file),
                    !.base = @ \cup {i}]

\* the observer of the `files` map of interface i, run for one changed key:
\* add and update call debouncedWriteFile(key, ydoc, intf, diff), delete
\* only logs.  The observer does not look at the origin of the transaction.
filesObserver(q, i, key, action) ==
    IF action \in {"add", "update"}
    THEN debounceByKey(q, Timer("write", key, i))
    ELSE q

\* intf.ydoc.getMap('files').set(path, content) made by this process; the
\* observer runs synchronously when the transaction ends
filesSet(st, i, path, content) ==
    [st EXCEPT !.files[i][path] = content,
               !.author[i][path] = "local",
               !.timers = filesObserver(@, i, path,
                              IF st.files[i][path] = Absent
                              THEN "add" ELSE "update"),
               !.sets = @ \cup {i}]

\* the body of the forEach of debouncedAdd for one interface
addOne(st, i, path, content) ==
    addDiffFile(filesSet(st, i, path, content), i, path)

\* mutant: the entry is set without comparing it with the disk content
changeOne_noCompare(st, i, path, fileContent) ==
    IF WritesKey(i, path) \in st.WRITES
    THEN [st EXCEPT !.WRITES = @ \ {WritesKey(i, path)},
                    !.skipped = @ \cup {i}]
    ELSE addDiffFile(filesSet(st, i, path, fileContent), i, path)

\* the body of the forEach of debouncedChange for one interface
changeOne(st, i, path, fileContent) ==
    IF WritesKey(i, path) \in st.WRITES
    THEN [st EXCEPT !.WRITES = @ \ {WritesKey(i, path)},
                    !.skipped = @ \cup {i}]
    ELSE addDiffFile(IF st.files[i][path] # fileContent
                     THEN filesSet(st, i, path, fileContent)
                     ELSE st, i, path)

\* mutant: the interfaces are filtered by 'w'
RECURSIVE forEachReader_byWrite(_, _, _, _, _)
forEachReader_byWrite(fn, st, i, path, content) ==
    IF i > Len(intfFiles) THEN st
    ELSE forEachReader_byWrite(fn,
             IF hasPermission("w", intfFiles[i], path)
             THEN (IF fn = "add" THEN addOne(st, i, path, content)
                                 ELSE changeOne(st, i, path, content))
             ELSE st,
             i + 1, path, content)

\* interfaces.filter(intf => hasPermission('r', intf.files, path)).forEach
RECURSIVE forEachReader(_, _, _, _, _)
forEachReader(fn, st, i, path, content) ==
    IF i > Len(intfFiles) THEN st
    ELSE forEachReader(fn,
             IF hasPermission("r", intfFiles[i], path)
             THEN (IF fn = "add" THEN addOne(st, i, path, content)
                                 ELSE changeOne(st, i, path, content))
             ELSE st,
             i + 1, path, content)

NoteLast(op, key, intf, result, st, wrote, echoOf) ==
    [op |-> op, key |-> key, intf |-> intf, result |-> result,
     sets |-> st.sets, base |-> st.base, skipped |-> st.skipped,
     fp |-> [i \in st.skipped |-> fingerprint[i][key]],
     wrote |-> wrote, echoOf |-> echoOf,
     prev |-> IF key \in Paths THEN prevChange[key]
                              ELSE [i \in Interfaces |-> -1]]

NoRegs == [sets |-> {}, base |-> {}, skipped |-> {}]


\* ------------------------------------------- the programs that are not run
NoExit == -1

\* the `diff` command has not been given
DiffOff ==
    /\ config = <<>>
    /\ git = <<>>
    /\ headFiles = <<>>
    /\ metadata = <<>>
    /\ provider = <<>>
    /\ watcher = <<>>
    /\ watchEvents = <<>>
    /\ pc = "off"
    /\ exitCode = NoExit
    /\ teardownLog = <<>>
    /\ destroyThrows = {}

\* the result of a call that has not been made yet
Pending == [done |-> FALSE, value |-> FALSE]

Returned(value) == [done |-> TRUE, value |-> value]

\* no separate call of a pure function is looked at
PureOff ==
    /\ pureIn = [fn |-> "none"]
    /\ pureOut = Pending

\* no fs.watch watcher is looked at
WatchOff ==
    /\ inode = <<>>
    /\ nextInode = 0
    /\ watchedFiles = <<>>
    /\ fsWatchers = <<>>
    /\ watchTimeout = <<>>
    /\ rearm = <<>>
    /\ watchThrows = {}

\* no file-sharing session has been created
ShareOff ==
    /\ updatingFromGUI = <<>>
    /\ sessionWatch = <<>>

\* `connect` has not been called
SyncOff ==
    /\ intfFiles = <<>>
    /\ paths = {}
    /\ diff = "none"
    /\ files = <<>>
    /\ WRITES = {}
    /\ timers = <<>>
    /\ fsEvents = <<>>
    /\ crashed = FALSE
    /\ nRemote = 0
    /\ fingerprint = <<>>
    /\ echo = <<>>
    /\ prevChange = <<>>
    /\ author = <<>>

\* ------------------------------------------------------------------- Init
\* `connect` has run: every document is new (its maps are empty), WRITES is
\* empty, and chokidar's initial scan will report every existing file as
\* `add` (ignoreInitial is not set).
InitWith(scenarios) ==
    /\ \E s \in scenarios : intfFiles = s.files /\ paths = s.paths /\ diff = s.diff
    /\ files = [i \in Interfaces |-> [p \in Paths |-> Absent]]
    /\ baseFiles = [i \in Interfaces |-> [p \in Paths |-> Absent]]
    /\ disk \in [Paths -> {Absent, 1}]
    /\ \A p \in Paths \ paths : disk[p] = Absent
    /\ WRITES = {}
    /\ timers = <<>>
    /\ fsEvents = [p \in Paths |-> IF disk[p] = Absent THEN "none" ELSE "add"]
    /\ crashed = FALSE
    /\ nLocal = 0
    /\ nRemote = 0
    /\ fingerprint = [i \in Interfaces |-> [p \in Paths |-> NoFingerprint]]
    /\ echo = [p \in Paths |-> [i \in Interfaces |-> "none"]]
    /\ prevChange = [p \in Paths |-> [i \in Interfaces |-> -1]]
    /\ author = [i \in Interfaces |-> [p \in Paths |-> "nobody"]]
    /\ last = NoteLast("init", <<>>, 0, "ok", NoRegs, FALSE, {})
    /\ DiffOff
    /\ PureOff
    /\ WatchOff
    /\ ShareOff

Init == InitWith(Scenarios)

\* --------------------------------------------------- the environment: disk
\* what chokidar will report for a path once the file has been written
AfterWrite(p) ==
    IF disk[p] = Absent
    THEN (IF fsEvents[p] = "unlink" THEN "change" ELSE "add")
    ELSE (IF fsEvents[p] = "add" THEN "add" ELSE "change")

\* the user (or an editor) saves file p with content c
LocalEdit(p, c) ==
    /\ ~crashed
    /\ nLocal < MaxLocal
    /\ disk' = [disk EXCEPT ![p] = c]
    /\ fsEvents' = [fsEvents EXCEPT ![p] = AfterWrite(p)]
    /\ nLocal' = nLocal + 1
    /\ prevChange' = [prevChange EXCEPT ![p] = [i \in Interfaces |-> -1]]
    /\ echo' = [echo EXCEPT ![p] = [i \in Interfaces |-> "none"]]
    /\ last' = NoteLast("edit", p, 0, "ok", NoRegs, FALSE, {})
    /\ UNCHANGED <<intfFiles, paths, diff, files, baseFiles, WRITES, timers,
                   crashed, nRemote, fingerprint, author>>
    /\ UNCHANGED <<diffVars, pureVars, watchVars, shareVars>>

\* the user deletes file p
LocalUnlink(p) ==
    /\ ~crashed
    /\ nLocal < MaxLocal
    /\ disk[p] # Absent
    /\ disk' = [disk EXCEPT ![p] = Absent]
    /\ fsEvents' = [fsEvents EXCEPT ![p] =
                        IF @ = "add" THEN "none" ELSE "unlink"]
    /\ nLocal' = nLocal + 1
    /\ prevChange' = [prevChange EXCEPT ![p] = [i \in Interfaces |-> -1]]
    /\ echo' = [echo EXCEPT ![p] = [i \in Interfaces |-> "none"]]
    /\ last' = NoteLast("unlink", p, 0, "ok", NoRegs, FALSE, {})
    /\ UNCHANGED <<intfFiles, paths, diff, files, baseFiles, WRITES, timers,
                   crashed, nRemote, fingerprint, author>>
    /\ UNCHANGED <<diffVars, pureVars, watchVars, shareVars>>

\* ------------------------------------------------ chokidar's `all` callback
\* add calls debouncedAdd(path, interfaces, diff), change calls
\* debouncedChange(path, interfaces, diff), every other event is dropped
watcherAll(p) ==
    /\ ~crashed
    /\ fsEvents[p] # "none"
    /\ timers' = IF fsEvents[p] = "add"
                 THEN debounceByKey(timers, Timer("add", p, 0))
                 ELSE IF fsEvents[p] = "change"
                 THEN debounceByKey(timers, Timer("change", p, 0))
                 ELSE timers
    /\ fsEvents' = [fsEvents EXCEPT ![p] = "none"]
    /\ echo' = [echo EXCEPT ![p] =
                   [i \in Interfaces |->
                       IF echo[p][i] # "raw" THEN echo[p][i]
                       ELSE IF fsEvents[p] = "change" THEN "timer"
                       ELSE "none"]]
    /\ last' = NoteLast("emit", p, 0, fsEvents[p], NoRegs, FALSE, {})
    /\ UNCHANGED <<intfFiles, paths, diff, files, baseFiles, disk, WRITES,
                   crashed, nLocal, nRemote, fingerprint, prevChange, author>>
    /\ UNCHANGED <<diffVars, pureVars, watchVars, shareVars>>


\* mutant: the document value is written although the file already has it
unchangedContent_never(content, fileContent) == FALSE

\* `if (content === fileContent) return` of debouncedWriteFile
unchangedContent(content, fileContent) == content = fileContent

\* ------------------------------------------------------ the timer callbacks
\* An exception that escapes a timer callback is uncaught: this program
\* installs no handler for it and the process dies.
Throw(q, op, key, intf, st) ==
    /\ crashed' = TRUE
    /\ timers' = q
    /\ last' = NoteLast(op, key, intf, "threw", st, FALSE, {})

\* the timer of debouncedAdd for some path runs
debouncedAdd ==
    /\ ~crashed
    /\ \E k \in 1..Len(timers) :
        /\ timers[k].fn = "add"
        /\ Due(timers, k)
        /\ LET path == timers[k].key
               q == RemoveAt(timers, k)
               st == forEachReader("add", [Regs EXCEPT !.timers = q], 1,
                                   path, disk[path])
           IN IF disk[path] = Absent          \* fs.readFileSync throws
              THEN /\ Throw(q, "add", path, 0, NoRegs)
                   /\ UNCHANGED <<files, baseFiles, author>>
              ELSE /\ files' = st.files
                   /\ author' = st.author
                   /\ baseFiles' = st.baseFiles
                   /\ timers' = st.timers
                   /\ crashed' = crashed
                   /\ last' = NoteLast("add", path, 0, "ok", st, FALSE, {})
    /\ UNCHANGED <<intfFiles, paths, diff, disk, WRITES, fsEvents, nLocal, nRemote,
                   fingerprint, echo, prevChange>>
    /\ UNCHANGED <<diffVars, pureVars, watchVars, shareVars>>

\* the timer of debouncedChange for some path runs
debouncedChange ==
    /\ ~crashed
    /\ \E k \in 1..Len(timers) :
        /\ timers[k].fn = "change"
        /\ Due(timers, k)
        /\ LET path == timers[k].key
               q == RemoveAt(timers, k)
               st == forEachReader("change", [Regs EXCEPT !.timers = q], 1,
                                   path, disk[path])
               echoOf == {i \in Interfaces : echo[path][i] = "timer"}
           IN /\ echo' = [echo EXCEPT ![path] =
                             [i \in Interfaces |->
                                 IF i \in echoOf THEN "none" ELSE echo[path][i]]]
              /\ IF disk[path] = Absent       \* fs.readFileSync throws
                 THEN /\ Throw(q, "change", path, 0, NoRegs)
                      /\ UNCHANGED <<files, baseFiles, WRITES, fingerprint,
                                     prevChange, author>>
                 ELSE /\ files' = st.files
                      /\ author' = st.author
                      /\ baseFiles' = st.baseFiles
                      /\ WRITES' = st.WRITES
                      /\ timers' = st.timers
                      /\ crashed' = crashed
                      /\ fingerprint' =
                            [i \in Interfaces |->
                                IF i \in st.skipped
                                THEN [fingerprint[i] EXCEPT
                                         ![path] = NoFingerprint]
                                ELSE fingerprint[i]]
                      /\ prevChange' = [prevChange EXCEPT ![path] =
                            [i \in Interfaces |->
                                IF ~hasPermission("r", intfFiles[i], path)
                                THEN -1
                                ELSE IF i \in st.skipped THEN 2
                                ELSE IF i \in st.sets THEN 1 ELSE 0]]
                      /\ last' = NoteLast("change", path, 0, "ok", st, FALSE,
                                          echoOf)
    /\ UNCHANGED <<intfFiles, paths, diff, disk, fsEvents, nLocal, nRemote>>
    /\ UNCHANGED <<diffVars, pureVars, watchVars, shareVars>>

\* the timer of debouncedWriteFile for some key runs, with the arguments
\* (key, ydoc, intf, diff) of the call that set it
debouncedWriteFile ==
    /\ ~crashed
    /\ \E k \in 1..Len(timers) :
        /\ timers[k].fn = "write"
        /\ Due(timers, k)
        /\ LET key == timers[k].key
               i == timers[k].intf
               q == RemoveAt(timers, k)
               content == files[i][key]
               st == addDiffFile([Regs EXCEPT !.timers = q], i, key)
           IN IF ~hasPermission("w", intfFiles[i], key)
              THEN /\ timers' = q
                   /\ last' = NoteLast("write", key, i, "denied", NoRegs,
                                       FALSE, {})
                   /\ UNCHANGED <<baseFiles, disk, WRITES, fsEvents, crashed,
                                  fingerprint, echo, prevChange>>
              ELSE IF disk[key] = Absent      \* fs.readFileSync throws
              THEN /\ Throw(q, "write", key, i, NoRegs)
                   /\ UNCHANGED <<baseFiles, disk, WRITES, fsEvents,
                                  fingerprint, echo, prevChange>>
              ELSE IF unchangedContent(content, disk[key])
              THEN /\ timers' = q
                   /\ last' = NoteLast("write", key, i, "noop", NoRegs,
                                       FALSE, {})
                   /\ UNCHANGED <<baseFiles, disk, WRITES, fsEvents, crashed,
                                  fingerprint, echo, prevChange>>
              ELSE IF content = Absent        \* fs.writeFileSync(undefined)
              THEN /\ WRITES' = WRITES \cup {WritesKey(i, key)}
                   /\ fingerprint' = [fingerprint EXCEPT ![i][key] = Absent]
                   /\ Throw(q, "write", key, i, NoRegs)
                   /\ UNCHANGED <<baseFiles, disk, fsEvents, echo, prevChange>>
              ELSE /\ WRITES' = WRITES \cup {WritesKey(i, key)}
                   /\ disk' = [disk EXCEPT ![key] = content]
                   /\ fsEvents' = [fsEvents EXCEPT ![key] = AfterWrite(key)]
                   /\ baseFiles' = st.baseFiles
                   /\ timers' = q
                   /\ crashed' = crashed
                   /\ fingerprint' = [fingerprint EXCEPT ![i][key] = content]
                   /\ echo' = [echo EXCEPT ![key][i] =
                                   IF author[i][key] = "remote"
                                   THEN "raw" ELSE "none"]
                   /\ prevChange' = [prevChange EXCEPT ![key] =
                                        [j \in Interfaces |-> -1]]
                   /\ last' = NoteLast("write", key, i, "written", st, TRUE,
                                       {})
    /\ UNCHANGED <<intfFiles, paths, diff, files, nLocal, nRemote, author>>
    /\ UNCHANGED <<diffVars, pureVars, watchVars, shareVars>>

\* ---------------------------------------------- the environment: the peers
\* a transaction of a remote peer sets key p of the `files` map of interface
\* i; the observer of that map runs
RemoteSet(i, p, c) ==
    /\ ~crashed
    /\ nRemote < MaxRemote
    /\ files' = [files EXCEPT ![i][p] = c]
    /\ timers' = filesObserver(timers, i, p,
                     IF files[i][p] = Absent THEN "add" ELSE "update")
    /\ nRemote' = nRemote + 1
    /\ prevChange' = [prevChange EXCEPT ![p][i] = -1]
    /\ author' = [author EXCEPT ![i][p] = "remote"]
    /\ last' = NoteLast("remote", p, i, "ok", NoRegs, FALSE, {})
    /\ UNCHANGED <<intfFiles, paths, diff, baseFiles, disk, WRITES, fsEvents,
                   crashed, nLocal, fingerprint, echo>>
    /\ UNCHANGED <<diffVars, pureVars, watchVars, shareVars>>

\* a transaction of a remote peer deletes key p of the `files` map
RemoteDelete(i, p) ==
    /\ ~crashed
    /\ nRemote < MaxRemote
    /\ files[i][p] # Absent
    /\ files' = [files EXCEPT ![i][p] = Absent]
    /\ timers' = filesObserver(timers, i, p, "delete")
    /\ nRemote' = nRemote + 1
    /\ prevChange' = [prevChange EXCEPT ![p][i] = -1]
    /\ author' = [author EXCEPT ![i][p] = "remote"]
    /\ last' = NoteLast("remoteDelete", p, i, "ok", NoRegs, FALSE, {})
    /\ UNCHANGED <<intfFiles, paths, diff, baseFiles, disk, WRITES, fsEvents,
                   crashed, nLocal, fingerprint, echo>>
    /\ UNCHANGED <<diffVars, pureVars, watchVars, shareVars>>

Next ==
    \/ \E p \in paths, c \in Content : LocalEdit(p, c)
    \/ \E p \in paths : LocalUnlink(p)
    \/ \E p \in paths : watcherAll(p)
    \/ debouncedAdd
    \/ debouncedChange
    \/ debouncedWriteFile
    \/ \E i \in Interfaces, p \in paths, c \in Content : RemoteSet(i, p, c)
    \/ \E i \in Interfaces, p \in paths : RemoteDelete(i, p)

Spec == Init /\ [][Next]_vars

TypeOK ==
    /\ disk \in [Paths -> Content \cup {Absent}]
    /\ files \in [Interfaces -> [Paths -> Content \cup {Absent}]]
    /\ WRITES \subseteq {WritesKey(i, p) : i \in Interfaces, p \in Paths}
    /\ \A j, k \in 1..Len(timers) :
          (j # k) => ~(timers[j].fn = timers[k].fn
                       /\ timers[j].key = timers[k].key)


\* ======================================================= the `diff` command
\* handleDiff creates one diff session per interface of the config, each
\* with its own document (maps `base-files`, `head-files`, `metadata`), its
\* own provider and, when the head branch is the checked-out one, its own
\* chokidar watcher.  The repository is looked at through git commands.

MaxEdits == 2        \* edits / deletions of files while the sessions run

EmptyString == -2    \* the content ''

BaseBranch == "base"
HeadBranch == "head"

\* the paths in the order git lists them
PathOrder == <<P_yml, P_txt>>

\* the names interfaces are given in .ghostpipe.json
Names == {"A", "B"}

\* config.interfaces: the first interface has no `files` list (allowedFiles
\* is null), the second one lists n.txt; neither is a manager
DiffConfigs ==
    { << [name |-> "A", manager |-> FALSE, hasFiles |-> FALSE, files |-> <<>>],
         [name |-> "B", manager |-> FALSE, hasFiles |-> TRUE,
          files |-> <<P_txt>>] >> }

\* the branches `git show-ref --verify refs/heads/<branch>` can be asked for
AllBranches == {"main", BaseBranch, HeadBranch}

\* The repositories that are explored: the working directory is inside a
\* repository that has every branch the command asks for.  a.yml is absent or has content 1 at
\* the base branch and is absent or has any content at the head branch and
\* in the working directory; n.txt has content 1 in both branches and is
\* unchanged, modified or deleted in the working directory.
Repos ==
    { r \in [isRepo : {TRUE},
             branches : {AllBranches},
             current : {HeadBranch, "other"},
             show : [{BaseBranch, HeadBranch} -> [Paths -> Content \cup {Absent}]],
             diffThrows : BOOLEAN] :
        /\ r.show[BaseBranch][P_yml] \in {Absent, 1}
        /\ r.show[BaseBranch][P_txt] = 1
        /\ r.show[HeadBranch][P_txt] = 1
        /\ r.diffThrows => (r.show[HeadBranch] = r.show[BaseBranch]) }

\* Array.prototype.join('\n') and the text of a `--name-only` listing
RECURSIVE Join(_)
Join(list) ==
    IF list = <<>> THEN <<>>
    ELSE IF Len(list) = 1 THEN list[1]
    ELSE list[1] \o <<"\n">> \o Join(Tail(list))

RECURSIVE Listing(_)
Listing(list) ==
    IF list = <<>> THEN <<>> ELSE list[1] \o <<"\n">> \o Listing(Tail(list))

\* String.prototype.trim, for text whose only white space is the newline
RECURSIVE TrimStart(_)
TrimStart(s) ==
    IF s # <<>> /\ Head(s) = "\n" THEN TrimStart(Tail(s)) ELSE s

RECURSIVE TrimEnd(_)
TrimEnd(s) ==
    IF s # <<>> /\ s[Len(s)] = "\n" THEN TrimEnd(SubSeq(s, 1, Len(s) - 1))
    ELSE s

Trim(s) == TrimEnd(TrimStart(s))

\* String.prototype.split('\n')
RECURSIVE SplitLinesFrom(_, _, _)
SplitLinesFrom(s, k, cur) ==
    IF k > Len(s) THEN <<cur>>
    ELSE IF s[k] = "\n" THEN <<cur>> \o SplitLinesFrom(s, k + 1, <<>>)
    ELSE SplitLinesFrom(s, k + 1, Append(cur, s[k]))

SplitLines(s) == SplitLinesFrom(s, 1, <<>>)

\* .filter(Boolean) on an array of strings
FilterBoolean(list) == SelectSeq(list, LAMBDA x : x # <<>>)

\* mutant: the two lists are concatenated without removing duplicates
ArrayFromSet_keepsAll(list) == list

\* Array.from(new Set(list)): first occurrences, in order
RECURSIVE ArrayFromSet(_)
ArrayFromSet(list) ==
    IF list = <<>> THEN <<>>
    ELSE LET front == ArrayFromSet(SubSeq(list, 1, Len(list) - 1))
             x == list[Len(list)]
         IN IF \E k \in 1..Len(front) : front[k] = x THEN front
            ELSE Append(front, x)

\* `git diff --name-only base...head`: the files whose committed content at
\* the head branch differs from the base branch (the base branch is an
\* ancestor of the head branch)
GitDiffBranches(repo) ==
    Listing(SelectSeq(PathOrder,
        LAMBDA p : repo.show[BaseBranch][p] # repo.show[HeadBranch][p]))

\* `git diff --name-only base`: the tracked files whose content in the
\* working directory differs from the base branch
GitDiffWorking(repo, dsk) ==
    Listing(SelectSeq(PathOrder,
        LAMBDA p : /\ \/ repo.show[BaseBranch][p] # Absent
                      \/ repo.show[HeadBranch][p] # Absent
                   /\ dsk[p] # repo.show[BaseBranch][p]))

\* `git show <branch>:<file>`, EmptyString where the command fails
GitShowOrEmpty(repo, branch, file) ==
    IF repo.show[branch][file] = Absent THEN EmptyString
    ELSE repo.show[branch][file]

ArrayIncludes(list, x) == \E k \in 1..Len(list) : list[k] = x


\* ------------------------------------------------------ createDiffSession
\* the changed files, as the text `changedFilesOutput`
getChangedFilesOutput(repo, dsk, isWorkingDirectory) ==
    IF isWorkingDirectory
    THEN Join(ArrayFromSet(
             FilterBoolean(SplitLines(Trim(GitDiffBranches(repo))))
             \o FilterBoolean(SplitLines(Trim(GitDiffWorking(repo, dsk))))))
    ELSE Trim(GitDiffBranches(repo))

\* mutant: the changed files are not filtered
allowed_all(intf, file) == TRUE

\* file => !allowedFiles || allowedFiles.includes(file)
allowed(intf, file) == ~intf.hasFiles \/ ArrayIncludes(intf.files, file)

\* mutant: no entry is made when the file is not in the base branch
loadBase_skipsMissing(repo, file) == repo.show[BaseBranch][file]

\* the value set in `base-files` for a changed file
loadBase(repo, file) == GitShowOrEmpty(repo, BaseBranch, file)

\* mutant: the head is always read from the head branch
loadHead_fromBranch(repo, dsk, isWorkingDirectory, file) ==
    GitShowOrEmpty(repo, HeadBranch, file)

\* the value set in `head-files` for a changed file
loadHead(repo, dsk, isWorkingDirectory, file) ==
    IF isWorkingDirectory
    THEN (IF dsk[file] # Absent THEN dsk[file] ELSE EmptyString)
    ELSE GitShowOrEmpty(repo, HeadBranch, file)

\* mutant: the watcher is created in every mode
shouldWatch_always(isWorkingDirectory) == TRUE

\* `if (isWorkingDirectory)` around the creation of the watcher
shouldWatch(isWorkingDirectory) == isWorkingDirectory

NoEvents == [p \in Paths |-> <<>>]

NoMap == [p \in Paths |-> Absent]

\* the object `interfaceUrls = {}` of handleDiff: no name has a URL
NoUrls == [n \in Names |-> Absent]

\* the `metadata` map of a new document
NoMetadata ==
    [mode |-> "none", includesWorkingDirectory |-> FALSE,
     changedFiles |-> <<>>, hasInterfaceUrls |-> FALSE, interfaceUrls |-> NoUrls]

\* provider.destroy() of session i, noted in the teardown history
destroyProvider(ds, i) ==
    [ds EXCEPT !.provider[i] = IF i \in destroyThrows THEN "failed"
                                                      ELSE "destroyed",
               !.teardownLog = Append(@, <<"destroy", i>>),
               !.threw = @ \/ (i \in destroyThrows)]

\* the working registers of a run of handleDiff or of a handler
DiffRegs ==
    [baseFiles |-> baseFiles, headFiles |-> headFiles, metadata |-> metadata,
     provider |-> provider, watcher |-> watcher, watchEvents |-> watchEvents,
     teardownLog |-> teardownLog, exited |-> FALSE, exitCode |-> NoExit,
     threw |-> FALSE, collecting |-> FALSE, interfaceUrls |-> NoUrls]

\* generateUrl(host, pipeId, signalingServer, 'diff'): the pipe id is drawn
\* at random for every session, so the URL of session i is written i
generateUrl(i) == i

\* `if (interfaceUrls !== null) interfaceUrls[name] = url`
storeUrl(ds, i) ==
    IF ds.collecting
    THEN [ds EXCEPT !.interfaceUrls[config[i].name] = generateUrl(i)]
    ELSE ds

createDiffSession(ds, i) ==
    LET intf == config[i]
        isWorkingDirectory == git.current = HeadBranch
        changedFilesOutput ==
            getChangedFilesOutput(git, disk, isWorkingDirectory)
        changedFiles ==
            SelectSeq(SplitLines(changedFilesOutput),
                      LAMBDA file : allowed(intf, file))
        created ==
            [ds EXCEPT !.provider[i] = "open",
                       !.metadata[i] =
                           [NoMetadata EXCEPT
                               !.mode = "diff",
                               !.includesWorkingDirectory = isWorkingDirectory]]
    IN IF git.diffThrows                 \* execSync throws: the outer catch
       THEN [destroyProvider(created, i) EXCEPT !.exited = TRUE,
                                                !.exitCode = 1]
       ELSE IF changedFilesOutput = <<>> \* no files changed: early return
       THEN created
       ELSE [storeUrl(created, i) EXCEPT
               !.metadata[i].changedFiles = changedFiles,
               !.baseFiles[i] =
                   [p \in Paths |->
                       IF ArrayIncludes(changedFiles, p)
                       THEN loadBase(git, p) ELSE Absent],
               !.headFiles[i] =
                   [p \in Paths |->
                       IF ArrayIncludes(changedFiles, p)
                       THEN loadHead(git, disk, isWorkingDirectory, p)
                       ELSE Absent],
               !.watcher[i] = IF shouldWatch(isWorkingDirectory)
                              THEN "open" ELSE "null"]

\* config.interfaces.map(interfaceConfig => createDiffSession(...)); a
\* process.exit inside a session ends the map
RECURSIVE createDiffSessions(_, _)
createDiffSessions(ds, i) ==
    IF i > Len(config) \/ ds.exited THEN ds
    ELSE createDiffSessions(createDiffSession(ds, i), i + 1)

\* the paths watcher i was created for: filesToWatch
\* history: what the last step of the `diff` program did; `before` is the
\* head entry of the path before a handler ran
NoteDiff(op, i, p) ==
    [op |-> op, intf |-> i, key |-> p,
     before |-> IF i \in Interfaces /\ p \in Paths THEN headFiles[i][p]
                ELSE Absent]

filesToWatch(i) ==
    {p \in Paths : ArrayIncludes(metadata[i].changedFiles, p)}

InitDiff ==
    /\ config \in DiffConfigs
    /\ git \in Repos
    /\ disk \in [Paths -> Content \cup {Absent}]
    /\ destroyThrows \in {{}, {1}}
    /\ baseFiles = [i \in Interfaces |-> NoMap]
    /\ headFiles = [i \in Interfaces |-> NoMap]
    /\ metadata = [i \in Interfaces |-> NoMetadata]
    /\ provider = [i \in Interfaces |-> "none"]
    /\ watcher = [i \in Interfaces |-> "null"]
    /\ watchEvents = [i \in Interfaces |-> NoEvents]
    /\ pc = "start"
    /\ exitCode = NoExit
    /\ teardownLog = <<>>
    /\ nLocal = 0
    /\ last = NoteDiff("init", 0, <<>>)
    /\ SyncOff
    /\ PureOff
    /\ WatchOff
    /\ ShareOff

\* gitUtils: what the verifications of handleDiff find
verifyRepo(repo) == repo.isRepo

\* `git branch --show-current` prints nothing when HEAD is detached
getCurrentBranch(repo) == repo.current

\* the first of main and master that exists, the empty string for none
getDefaultBranch(repo) ==
    IF "main" \in repo.branches THEN "main"
    ELSE IF "master" \in repo.branches THEN "master"
    ELSE ""

verifyBranch(repo, branch) == branch \in repo.branches

\* process.exit(code)
Exit(ds, code) == [ds EXCEPT !.exited = TRUE, !.exitCode = code]

\* sessions.forEach: metadata.set('interfaceUrls', interfaceUrls) in the
\* document of every manager session
shareUrls(ds) ==
    [ds EXCEPT !.metadata =
        [i \in Interfaces |->
            IF i <= Len(config) /\ config[i].manager
            THEN [ds.metadata[i] EXCEPT !.hasInterfaceUrls = TRUE,
                                        !.interfaceUrls = ds.interfaceUrls]
            ELSE ds.metadata[i]]]

\* the body of handleDiff, called as `ghostpipe diff base head`
diffSessions ==
    IF ~verifyRepo(git) THEN Exit(DiffRegs, 1)
    ELSE IF getCurrentBranch(git) = "" THEN Exit(DiffRegs, 1)
    ELSE IF getDefaultBranch(git) = "" THEN Exit(DiffRegs, 1)
    ELSE IF ~verifyBranch(git, BaseBranch) THEN Exit(DiffRegs, 1)
    ELSE IF ~verifyBranch(git, HeadBranch) THEN Exit(DiffRegs, 1)
    ELSE IF Len(config) = 0 THEN Exit(DiffRegs, 1)
    ELSE LET hasManager == \E i \in 1..Len(config) : config[i].manager
             sessions ==
                 createDiffSessions([DiffRegs EXCEPT !.collecting = hasManager],
                                    1)
         IN IF hasManager /\ ~sessions.exited THEN shareUrls(sessions)
            ELSE sessions

\* the action of the `diff` command: handleDiff, then setupShutdownHandler
handleDiff ==
    /\ pc = "start"
    /\ LET ds == diffSessions
       IN /\ baseFiles' = ds.baseFiles
          /\ headFiles' = ds.headFiles
          /\ metadata' = ds.metadata
          /\ provider' = ds.provider
          /\ watcher' = ds.watcher
          /\ watchEvents' = ds.watchEvents
          /\ teardownLog' = ds.teardownLog
          /\ pc' = IF ds.exited THEN "exited" ELSE "running"
          /\ exitCode' = ds.exitCode
    /\ last' = NoteDiff("handleDiff", 0, <<>>)
    /\ UNCHANGED <<config, git, destroyThrows, disk, nLocal, syncVars, pureVars, watchVars, shareVars>>

\* ------------------------------------------- the working directory changes
\* The events a watcher has noticed for a path and not yet emitted, oldest
\* first.  A write to an existing file adds `change` unless an `add` or a
\* `change` is still waiting; a write that creates the file adds `add`, or
\* turns a waiting `unlink` into `change` (atomic: true); a deletion adds
\* `unlink`, or takes back an `add` that was never emitted.
Last(q) == IF q = <<>> THEN "none" ELSE q[Len(q)]

Front(q) == SubSeq(q, 1, Len(q) - 1)

noticeWrite(q, wasAbsent) ==
    IF wasAbsent
    THEN (IF Last(q) = "unlink" THEN Append(Front(q), "change")
                                ELSE Append(q, "add"))
    ELSE (IF Last(q) \in {"add", "change"} THEN q ELSE Append(q, "change"))

noticeUnlink(q) ==
    IF Last(q) = "add" THEN Front(q) ELSE Append(q, "unlink")

Watches(i, p) == watcher[i] = "open" /\ p \in filesToWatch(i)

\* somebody saves file p with content c
DiffEdit(p, c) ==
    /\ pc = "running"
    /\ nLocal < MaxEdits
    /\ disk' = [disk EXCEPT ![p] = c]
    /\ watchEvents' =
          [i \in Interfaces |->
              IF Watches(i, p)
              THEN [watchEvents[i] EXCEPT
                       ![p] = noticeWrite(@, disk[p] = Absent)]
              ELSE watchEvents[i]]
    /\ nLocal' = nLocal + 1
    /\ last' = NoteDiff("diskEdit", 0, p)
    /\ UNCHANGED <<config, git, destroyThrows, baseFiles, headFiles, metadata,
                   provider, watcher, pc, exitCode, teardownLog, syncVars,
                   pureVars, watchVars, shareVars>>

\* somebody deletes file p
DiffUnlink(p) ==
    /\ pc = "running"
    /\ nLocal < MaxEdits
    /\ disk[p] # Absent
    /\ disk' = [disk EXCEPT ![p] = Absent]
    /\ watchEvents' =
          [i \in Interfaces |->
              IF Watches(i, p)
              THEN [watchEvents[i] EXCEPT ![p] = noticeUnlink(@)]
              ELSE watchEvents[i]]
    /\ nLocal' = nLocal + 1
    /\ last' = NoteDiff("diskUnlink", 0, p)
    /\ UNCHANGED <<config, git, destroyThrows, baseFiles, headFiles, metadata,
                   provider, watcher, pc, exitCode, teardownLog, syncVars,
                   pureVars, watchVars, shareVars>>

\* ---------------------------------------- the handlers of a diff watcher
Emits(i, p, event) ==
    /\ pc = "running"
    /\ watcher[i] = "open"
    /\ watchEvents[i][p] # <<>>
    /\ Head(watchEvents[i][p]) = event
    /\ watchEvents' = [watchEvents EXCEPT ![i][p] = Tail(@)]
    /\ last' = NoteDiff(event, i, p)

\* mutant: the content is put into the base map
onChange_setsBase(bf, hf, i, p) ==
    IF disk[p] = Absent THEN [baseFiles |-> bf, headFiles |-> hf]
    ELSE [baseFiles |-> [bf EXCEPT ![i][p] = disk[p]], headFiles |-> hf]

\* mutant: the handler does nothing
onChange_ignores(bf, hf, i, p) == [baseFiles |-> bf, headFiles |-> hf]

\* watcher.on('change'): a failing read is caught and logged
onChange(bf, hf, i, p) ==
    IF disk[p] = Absent THEN [baseFiles |-> bf, headFiles |-> hf]
    ELSE [baseFiles |-> bf,
          headFiles |-> IF disk[p] # hf[i][p]
                        THEN [hf EXCEPT ![i][p] = disk[p]] ELSE hf]

\* mutant: the key is deleted from the head map
onUnlink_deletesKey(bf, hf, i, p) ==
    [baseFiles |-> bf, headFiles |-> [hf EXCEPT ![i][p] = Absent]]

\* watcher.on('unlink')
onUnlink(bf, hf, i, p) ==
    [baseFiles |-> bf,
     headFiles |-> IF hf[i][p] # Absent
                   THEN [hf EXCEPT ![i][p] = EmptyString] ELSE hf]

\* watcher.on('add'): a failing read is caught and logged
onAdd(bf, hf, i, p) ==
    [baseFiles |-> bf,
     headFiles |-> IF disk[p] = Absent THEN hf
                   ELSE [hf EXCEPT ![i][p] = disk[p]]]

HandlerFrame ==
    UNCHANGED <<config, git, destroyThrows, disk, nLocal, metadata, provider,
                watcher, pc, exitCode, teardownLog, syncVars, pureVars, watchVars, shareVars>>

watcherOnChange(i, p) ==
    /\ Emits(i, p, "change")
    /\ baseFiles' = onChange(baseFiles, headFiles, i, p).baseFiles
    /\ headFiles' = onChange(baseFiles, headFiles, i, p).headFiles
    /\ HandlerFrame

watcherOnUnlink(i, p) ==
    /\ Emits(i, p, "unlink")
    /\ baseFiles' = onUnlink(baseFiles, headFiles, i, p).baseFiles
    /\ headFiles' = onUnlink(baseFiles, headFiles, i, p).headFiles
    /\ HandlerFrame

watcherOnAdd(i, p) ==
    /\ Emits(i, p, "add")
    /\ baseFiles' = onAdd(baseFiles, headFiles, i, p).baseFiles
    /\ headFiles' = onAdd(baseFiles, headFiles, i, p).headFiles
    /\ HandlerFrame

\* ------------------------------------------------------------- shutdown
\* the cleanup function createDiffSession returns for session i
cleanup(ds, i) ==
    LET d == destroyProvider([ds EXCEPT !.threw = FALSE], i)
    IN IF d.threw THEN d                 \* the exception leaves cleanup
       ELSE IF d.watcher[i] = "null" THEN d
       ELSE [d EXCEPT !.watcher[i] = "closed",
                      !.teardownLog = Append(@, <<"close", i>>)]

\* cleanups.forEach(...): without try/catch the first exception ends the
\* loop, with try/catch (guarded) every cleanup is called
RECURSIVE forEachCleanup(_, _, _)
forEachCleanup(ds, i, guarded) ==
    IF i > Len(config) THEN ds
    ELSE LET d == cleanup(ds, i)
         IN IF d.threw /\ ~guarded THEN d
            ELSE forEachCleanup([d EXCEPT !.threw = FALSE], i + 1, guarded)

\* mutant: the handler returns without ending the process
afterCleanups_noExit(ds) ==
    IF ds.threw
    THEN [forEachCleanup(ds, 1, TRUE) EXCEPT !.exited = TRUE, !.exitCode = 1]
    ELSE ds

\* what follows cleanups.forEach in the SIGINT handler: process.exit(0), or,
\* when a cleanup threw, the uncaughtException handler, which calls every
\* cleanup again inside try/catch and ends the process with code 1
afterCleanups(ds) ==
    IF ds.threw
    THEN [forEachCleanup(ds, 1, TRUE) EXCEPT !.exited = TRUE, !.exitCode = 1]
    ELSE [ds EXCEPT !.exited = TRUE, !.exitCode = 0]

\* process.on('SIGINT')
SIGINT ==
    /\ pc = "running"
    /\ LET ds == afterCleanups(forEachCleanup(DiffRegs, 1, FALSE))
       IN /\ provider' = ds.provider
          /\ watcher' = ds.watcher
          /\ teardownLog' = ds.teardownLog
          /\ pc' = IF ds.exited THEN "exited" ELSE "running"
          /\ exitCode' = ds.exitCode
    /\ last' = NoteDiff("SIGINT", 0, <<>>)
    /\ UNCHANGED <<config, git, destroyThrows, disk, nLocal, baseFiles,
                   headFiles, metadata, watchEvents, syncVars, pureVars, watchVars, shareVars>>

NextDiff ==
    \/ handleDiff
    \/ \E p \in Paths, c \in Content : DiffEdit(p, c)
    \/ \E p \in Paths : DiffUnlink(p)
    \/ \E i \in Interfaces, p \in Paths : watcherOnChange(i, p)
    \/ \E i \in Interfaces, p \in Paths : watcherOnUnlink(i, p)
    \/ \E i \in Interfaces, p \in Paths : watcherOnAdd(i, p)
    \/ SIGINT

SpecDiff == InitDiff /\ [][NextDiff]_vars

\* ------------------------------------------ the start of the `diff` command
\* The configurations and repositories handleDiff is started with: up to
\* two interfaces without a `files` list, any of them a manager, with equal
\* or different names; inside or outside a repository, with any of the
\* branches missing; with or without a changed file.
StartInterfaces ==
    [name : Names, manager : BOOLEAN, hasFiles : {FALSE}, files : {<<>>}]

StartConfigs ==
    {<<>>} \cup {<<a>> : a \in StartInterfaces}
           \cup {<<a, b>> : a, b \in StartInterfaces}

Unchanged == [b \in {BaseBranch, HeadBranch} |-> [p \in Paths |-> 1]]

StartRepos ==
    [isRepo : BOOLEAN,
     branches : SUBSET AllBranches,
     current : {HeadBranch, "other", ""},
     show : {Unchanged, [Unchanged EXCEPT ![HeadBranch][P_yml] = 2]},
     diffThrows : {FALSE}]

InitStart ==
    /\ config \in StartConfigs
    /\ git \in StartRepos
    /\ disk = [p \in Paths |-> 1]
    /\ destroyThrows \in {{}, {2}}
    /\ baseFiles = [i \in Interfaces |-> NoMap]
    /\ headFiles = [i \in Interfaces |-> NoMap]
    /\ metadata = [i \in Interfaces |-> NoMetadata]
    /\ provider = [i \in Interfaces |-> "none"]
    /\ watcher = [i \in Interfaces |-> "null"]
    /\ watchEvents = [i \in Interfaces |-> NoEvents]
    /\ pc = "start"
    /\ exitCode = NoExit
    /\ teardownLog = <<>>
    /\ nLocal = 0
    /\ last = NoteDiff("init", 0, <<>>)
    /\ SyncOff
    /\ PureOff
    /\ WatchOff
    /\ ShareOff

NextStart ==
    \/ handleDiff
    \/ SIGINT

SpecStart == InitStart /\ [][NextStart]_vars


\* ================================================= calls of pure functions
D_txt_r == <<"*", ".", "t", "x", "t", " ", "r">>
D_txt_w == <<"*", ".", "t", "x", "t", " ", "w">>
\* a declaration with a content mapping: `<glob> <map> <permissions>`
D_yml_map_w == <<"*", ".", "y", "m", "l", " ", "d", " ", "w">>
D_all_map_r == <<"*", " ", "d", " ", "r">>

MaxDecls == 2        \* declarations in one `files` array

Declarations ==
    {D_yml_r, D_yml_w, D_yml_rw, D_txt_r, D_txt_w, D_yml_map_w, D_all_map_r}

RECURSIVE SeqsUpTo(_, _)
SeqsUpTo(S, n) ==
    IF n = 0 THEN {<<>>}
    ELSE LET shorter == SeqsUpTo(S, n - 1)
         IN shorter \cup {Append(q, x) : q \in shorter, x \in S}

\* the calls hasPermission(permission, intf.files, path) that are looked at
HasPermissionCalls ==
    [fn : {"hasPermission"},
     permission : {"r", "w"},
     patterns : SeqsUpTo(Declarations, MaxDecls) \ {<<>>},
     file : Paths]

\* what validateConfig finds for the `file` of an interface: no file is
\* named, the named file does not exist, or it exists
FileStates == {"none", "missing", "exists"}

\* the calls validateConfig(config) that are looked at: the --diff option
\* given or not, inside or outside a repository, `interfaces` undefined or
\* a list of up to MaxDecls interfaces
ValidateConfigCalls ==
    [fn : {"validateConfig"},
     diff : BOOLEAN,
     isGitRepo : BOOLEAN,
     hasInterfaces : BOOLEAN,
     interfaces : SeqsUpTo(FileStates, MaxDecls)]

\* validateConfig: the argument of process.exit, NoExit when it returns
validateConfig(cfg) ==
    IF cfg.diff /\ ~cfg.isGitRepo THEN 0
    ELSE IF ~cfg.hasInterfaces THEN 0
    ELSE IF \E k \in 1..Len(cfg.interfaces) :
               cfg.interfaces[k] \in {"none", "missing"} THEN 1
    ELSE NoExit

\* the errors a chokidar watcher reports when the watch of a file cannot
\* be established: permission denied, path vanished
WatchErrors == {"EACCES", "ENOENT"}

\* the calls of the `error` listener watchLocalFile gives its watcher
WatcherErrorCalls == [fn : {"watcherOnError"}, error : WatchErrors]

\* watcher.on('error', ...) of watchLocalFile: the argument of process.exit
watcherOnError(error) == 1

\* the calls of fileString that are looked at: for a glob, a content mapping
\* and permission letters, the declaration without and with the mapping
FileStringCalls ==
    [fn : {"fileString"},
     glob : {<<"*">>, <<"*", ".", "y", "m", "l">>, P_txt},
     map : {<<"d">>, <<"r", "w">>},
     permissions : {<<"r">>, <<"w">>, <<"r", "w">>, <<"w", "r">>}]

InitPure ==
    /\ pureIn \in HasPermissionCalls \cup ValidateConfigCalls
                                     \cup WatcherErrorCalls
                                     \cup FileStringCalls
    /\ pureOut = Pending
    /\ SyncOff
    /\ DiffOff
    /\ WatchOff
    /\ ShareOff
    /\ baseFiles = <<>>
    /\ disk = <<>>
    /\ nLocal = 0
    /\ last = [op |-> "none"]

callHasPermission ==
    /\ pureIn.fn = "hasPermission"
    /\ ~pureOut.done
    /\ pureOut' = Returned(hasPermission(pureIn.permission, pureIn.patterns,
                                         pureIn.file))
    /\ UNCHANGED <<pureIn, syncVars, baseFiles, disk, nLocal, last, diffVars,
                 watchVars, shareVars>>

callValidateConfig ==
    /\ pureIn.fn = "validateConfig"
    /\ ~pureOut.done
    /\ pureOut' = Returned(validateConfig(pureIn))
    /\ UNCHANGED <<pureIn, syncVars, baseFiles, disk, nLocal, last, diffVars,
                 watchVars, shareVars>>

callWatcherOnError ==
    /\ pureIn.fn = "watcherOnError"
    /\ ~pureOut.done
    /\ pureOut' = Returned(watcherOnError(pureIn.error))
    /\ UNCHANGED <<pureIn, syncVars, baseFiles, disk, nLocal, last, diffVars,
                 watchVars, shareVars>>

callFileString ==
    /\ pureIn.fn = "fileString"
    /\ ~pureOut.done
    /\ pureOut' = Returned(
          [short |-> fileString(pureIn.glob \o <<" ">> \o pureIn.permissions),
           long |-> fileString(pureIn.glob \o <<" ">> \o pureIn.map
                                  \o <<" ">> \o pureIn.permissions)])
    /\ UNCHANGED <<pureIn, syncVars, baseFiles, disk, nLocal, last, diffVars,
                 watchVars, shareVars>>

NextPure ==
    \/ callFileString
    \/ callHasPermission
    \/ callValidateConfig
    \/ callWatcherOnError

SpecPure == InitPure /\ [][NextPure]_vars


\* =========================== the fs.watch watchers of a diff session (v4)
\* createDiffSession of ghostpipe.v4.js watches every changed file with its
\* own fs.watch watcher when the head branch is the checked-out one.  A
\* watcher watches the inode the path named when the watcher was made: it is
\* told `change` when that file is written and `rename` when it is removed
\* or replaced, and nothing about a new file of the same name.  One session
\* (session 1) is looked at; both paths are changed files.

WatchSession == 1

FsWatcher(p) == [path |-> p, inode |-> inode[p], open |-> TRUE, events |-> <<>>]

\* the working registers of the steps of this program
WatchRegs ==
    [watchedFiles |-> watchedFiles, fsWatchers |-> fsWatchers,
     headFiles |-> headFiles, rearm |-> rearm]

\* createWatcher() followed by watchedFiles.set(relativePath, watcher)
createWatcher(st, p) ==
    [st EXCEPT !.fsWatchers = Append(@, FsWatcher(p)),
               !.watchedFiles[p] = Len(st.fsWatchers) + 1]

\* watchFile(relativePath): a path that is watched already or whose file
\* does not exist is skipped; an exception of fs.watch is caught and logged
watchFile(st, p) ==
    IF st.watchedFiles[p] # 0 THEN st
    ELSE IF disk[p] = Absent THEN st
    ELSE IF p \in watchThrows THEN st
    ELSE createWatcher(st, p)

\* changedFiles.forEach(file => watchFile(file))
RECURSIVE forEachWatchFile(_, _)
forEachWatchFile(st, k) ==
    IF k > Len(PathOrder) THEN st
    ELSE forEachWatchFile(watchFile(st, PathOrder[k]), k + 1)

NoteWatch(op, p) == [op |-> op, key |-> p]

\* the snapshot has been loaded: head-files holds the content each changed
\* file has on disk ('' for a file that does not exist), no watcher is made
InitWatch ==
    /\ disk \in [Paths -> {Absent, 1}]
    /\ inode = [p \in Paths |-> IF disk[p] = Absent THEN 0
                                ELSE IF p = P_yml THEN 1 ELSE 2]
    /\ nextInode = 3
    /\ headFiles = [i \in {WatchSession} |->
                       [p \in Paths |-> IF disk[p] = Absent THEN EmptyString
                                        ELSE disk[p]]]
    /\ watchedFiles = NoMap
    /\ fsWatchers = <<>>
    /\ watchTimeout = [p \in Paths |-> "none"]
    /\ rearm = [p \in Paths |-> 0]
    /\ watchThrows \in SUBSET Paths
    /\ pc = "start"
    /\ nLocal = 0
    /\ last = NoteWatch("init", <<>>)
    /\ baseFiles = <<>>
    /\ config = <<>>
    /\ git = <<>>
    /\ metadata = <<>>
    /\ provider = <<>>
    /\ watcher = <<>>
    /\ watchEvents = <<>>
    /\ exitCode = NoExit
    /\ teardownLog = <<>>
    /\ destroyThrows = {}
    /\ SyncOff
    /\ PureOff
    /\ ShareOff

WatchFrame ==
    UNCHANGED <<baseFiles, config, git, metadata, provider, watcher,
                watchEvents, exitCode, teardownLog, destroyThrows, watchThrows,
                syncVars, pureVars, shareVars>>

\* the end of createDiffSession: the watchers are made
watchFiles ==
    /\ pc = "start"
    /\ LET st == forEachWatchFile(WatchRegs, 1)
       IN /\ fsWatchers' = st.fsWatchers
          /\ watchedFiles' = st.watchedFiles
    /\ pc' = "running"
    /\ last' = NoteWatch("watchFiles", <<>>)
    /\ UNCHANGED <<disk, inode, nextInode, headFiles, watchTimeout, rearm,
                   nLocal>>
    /\ WatchFrame

\* the operating system tells every open watcher of the inode about `event`
notify(ws, ino, event) ==
    [w \in 1..Len(ws) |->
        IF ws[w].open /\ ws[w].inode = ino /\ Last(ws[w].events) # event
        THEN [ws[w] EXCEPT !.events = Append(@, event)]
        ELSE ws[w]]

\* somebody writes file p in place
WatchEdit(p, c) ==
    /\ pc = "running"
    /\ nLocal < MaxEdits
    /\ disk[p] # Absent
    /\ disk' = [disk EXCEPT ![p] = c]
    /\ fsWatchers' = notify(fsWatchers, inode[p], "change")
    /\ nLocal' = nLocal + 1
    /\ last' = NoteWatch("diskEdit", p)
    /\ UNCHANGED <<inode, nextInode, headFiles, watchedFiles, watchTimeout,
                   rearm, pc>>
    /\ WatchFrame

\* somebody removes file p, or renames it away
WatchRemove(p) ==
    /\ pc = "running"
    /\ nLocal < MaxEdits
    /\ disk[p] # Absent
    /\ disk' = [disk EXCEPT ![p] = Absent]
    /\ inode' = [inode EXCEPT ![p] = 0]
    /\ fsWatchers' = notify(fsWatchers, inode[p], "rename")
    /\ nLocal' = nLocal + 1
    /\ last' = NoteWatch("diskRemove", p)
    /\ UNCHANGED <<nextInode, headFiles, watchedFiles, watchTimeout, rearm, pc>>
    /\ WatchFrame

\* somebody creates file p again: a new file, with a new inode
WatchCreate(p, c) ==
    /\ pc = "running"
    /\ nLocal < MaxEdits
    /\ disk[p] = Absent
    /\ disk' = [disk EXCEPT ![p] = c]
    /\ inode' = [inode EXCEPT ![p] = nextInode]
    /\ nextInode' = nextInode + 1
    /\ nLocal' = nLocal + 1
    /\ last' = NoteWatch("diskCreate", p)
    /\ UNCHANGED <<headFiles, watchedFiles, fsWatchers, watchTimeout, rearm,
                   pc>>
    /\ WatchFrame

\* somebody replaces file p by a new file (a temporary file is renamed to p)
WatchReplace(p, c) ==
    /\ pc = "running"
    /\ nLocal < MaxEdits
    /\ disk[p] # Absent
    /\ disk' = [disk EXCEPT ![p] = c]
    /\ inode' = [inode EXCEPT ![p] = nextInode]
    /\ nextInode' = nextInode + 1
    /\ fsWatchers' = notify(fsWatchers, inode[p], "rename")
    /\ nLocal' = nLocal + 1
    /\ last' = NoteWatch("diskReplace", p)
    /\ UNCHANGED <<headFiles, watchedFiles, watchTimeout, rearm, pc>>
    /\ WatchFrame

\* the listener given to fs.watch is called for the next event of watcher w:
\* the pending timer of the path is cleared and a new one is set
fsWatchListener(w) ==
    /\ pc = "running"
    /\ w \in 1..Len(fsWatchers)
    /\ fsWatchers[w].open
    /\ fsWatchers[w].events # <<>>
    /\ watchTimeout' = [watchTimeout EXCEPT ![fsWatchers[w].path] =
                            Head(fsWatchers[w].events)]
    /\ fsWatchers' = [fsWatchers EXCEPT ![w].events = Tail(@)]
    /\ last' = NoteWatch("listener", fsWatchers[w].path)
    /\ UNCHANGED <<disk, inode, nextInode, headFiles, watchedFiles, rearm, pc,
                   nLocal>>
    /\ WatchFrame

\* watchedFiles.get(relativePath).close()
closeWatcher(st, p) ==
    IF st.watchedFiles[p] = 0 THEN st
    ELSE [st EXCEPT !.fsWatchers[st.watchedFiles[p]].open = FALSE,
                    !.fsWatchers[st.watchedFiles[p]].events = <<>>]

\* the callback of the 100 ms timer of path p, for event type `eventType`
onWatchTimeout(st, p, eventType) ==
    IF disk[p] = Absent THEN st          \* "File no longer exists": return
    ELSE LET read == IF disk[p] # st.headFiles[WatchSession][p]
                     THEN [st EXCEPT !.headFiles[WatchSession][p] = disk[p]]
                     ELSE st
         IN IF eventType = "rename"
            THEN [closeWatcher(read, p) EXCEPT !.rearm[p] = @ + 1]
            ELSE read

watchTimeoutFires(p) ==
    /\ pc = "running"
    /\ watchTimeout[p] # "none"
    /\ LET st == onWatchTimeout(WatchRegs, p, watchTimeout[p])
       IN /\ headFiles' = st.headFiles
          /\ fsWatchers' = st.fsWatchers
          /\ watchedFiles' = st.watchedFiles
          /\ rearm' = st.rearm
    /\ watchTimeout' = [watchTimeout EXCEPT ![p] = "none"]
    /\ last' = NoteWatch("timeout", p)
    /\ UNCHANGED <<disk, inode, nextInode, pc, nLocal>>
    /\ WatchFrame

\* the callback of the 50 ms timer: a new watcher when the file exists
rearmFires(p) ==
    /\ pc = "running"
    /\ rearm[p] > 0
    /\ LET st == IF disk[p] # Absent THEN createWatcher(WatchRegs, p)
                 ELSE WatchRegs
       IN /\ fsWatchers' = st.fsWatchers
          /\ watchedFiles' = st.watchedFiles
    /\ rearm' = [rearm EXCEPT ![p] = @ - 1]
    /\ last' = NoteWatch("rearm", p)
    /\ UNCHANGED <<disk, inode, nextInode, headFiles, watchTimeout, pc, nLocal>>
    /\ WatchFrame

NextWatch ==
    \/ watchFiles
    \/ \E p \in Paths, c \in Content : WatchEdit(p, c)
    \/ \E p \in Paths : WatchRemove(p)
    \/ \E p \in Paths, c \in Content : WatchCreate(p, c)
    \/ \E p \in Paths, c \in Content : WatchReplace(p, c)
    \/ \E w \in 1..Len(fsWatchers) : fsWatchListener(w)
    \/ \E p \in Paths : watchTimeoutFires(p)
    \/ \E p \in Paths : rearmFires(p)

SpecWatch == InitWatch /\ [][NextWatch]_vars


\* ============================================ `connect` with two files
\* a run in which both files are in the working directory and each is
\* matched by the glob of one interface
TwoPathScenarios ==
    { [files |-> <<<<D_yml_rw>>, <<D_txt_r>>>>, paths |-> Paths,
       diff |-> "none"] }

InitLocal == InitWith(TwoPathScenarios)

\* the enabling conditions of the timer callbacks and of the watcher listener
CanRun(fn) ==
    /\ ~crashed
    /\ \E k \in 1..Len(timers) : timers[k].fn = fn /\ Due(timers, k)

CanEmit == ~crashed /\ \E p \in paths : fsEvents[p] # "none"

\* the event loop runs a timer that is due, and chokidar emits what it has
\* noticed: weak fairness of each of the four actions, WF_vars(A), written
\* out as "infinitely often disabled or infinitely often taken" with the
\* enabling condition of A in place of ENABLED <<A>>_vars
TimerFairness ==
    /\ []<>(~CanRun("add")) \/ []<><<debouncedAdd>>_vars
    /\ []<>(~CanRun("change")) \/ []<><<debouncedChange>>_vars
    /\ []<>(~CanRun("write")) \/ []<><<debouncedWriteFile>>_vars
    /\ []<>(~CanEmit) \/ []<><<\E p \in paths : watcherAll(p)>>_vars

\* the run without a peer: no remote change arrives
NextLocal ==
    \/ \E p \in paths, c \in Content : LocalEdit(p, c)
    \/ \E p \in paths : LocalUnlink(p)
    \/ \E p \in paths : watcherAll(p)
    \/ debouncedAdd
    \/ debouncedChange
    \/ debouncedWriteFile

SpecLocal == InitLocal /\ [][NextLocal]_vars /\ TimerFairness

\* ================================= the file-sharing sessions (createSession)
\* handleFileSharing creates one session per interface: the document map
\* `files` is loaded with the files of the working directory the interface
\* may see, an observer of the map writes every change to disk
\* (setupFileSync) and a chokidar watcher puts local changes into the map
\* (setupFileWatching).  The observer runs synchronously at the end of every
\* transaction on the map, a peer's and this process's own.

\* mutant: the exception of fs.writeFileSync is not caught
safeWriteFile_noCatch(dsk, p, content, fails) ==
    [ok |-> ~fails, threw |-> fails,
     disk |-> IF fails THEN dsk ELSE [dsk EXCEPT ![p] = content]]

\* safeWriteFile: true when the file has been written, false (and a logged
\* error) when mkdirSync or writeFileSync threw
safeWriteFile(dsk, p, content, fails) ==
    [ok |-> ~fails, threw |-> FALSE,
     disk |-> IF fails THEN dsk ELSE [dsk EXCEPT ![p] = content]]

\* the chokidar watchers that watch p notice what happened to the file
noticeAll(we, p, wasAbsent, unlinked) ==
    [i \in Interfaces |->
        IF p \in sessionWatch[i]
        THEN [we[i] EXCEPT ![p] = IF unlinked THEN noticeUnlink(@)
                                  ELSE noticeWrite(@, wasAbsent)]
        ELSE we[i]]

\* the working registers of one handler run
ShareRegs ==
    [files |-> files, disk |-> disk, watchEvents |-> watchEvents,
     updatingFromGUI |-> updatingFromGUI, action |-> "none",
     failed |-> FALSE, threw |-> FALSE]

\* handleGUIChanges of session i for a transaction that changed `key`;
\* `fails`: the write or the unlink it makes throws
handleGUIChanges(st, i, key, action, fails) ==
    LET entered == [st EXCEPT !.updatingFromGUI[i] = TRUE, !.action = action]
        w == safeWriteFile(st.disk, key, st.files[i][key], fails)
        body ==
            IF ~allowed(config[i], key) THEN entered
            ELSE IF action \in {"update", "add"}
            THEN [entered EXCEPT
                     !.disk = w.disk,
                     !.watchEvents =
                         IF w.ok THEN noticeAll(@, key, st.disk[key] = Absent,
                                                FALSE)
                         ELSE @,
                     !.failed = ~w.ok,
                     !.threw = w.threw]
            ELSE IF st.disk[key] = Absent THEN entered
            ELSE IF fails THEN [entered EXCEPT !.failed = TRUE]
            ELSE [entered EXCEPT
                     !.disk[key] = Absent,
                     !.watchEvents = noticeAll(@, key, FALSE, TRUE)]
    IN IF body.threw THEN body
       ELSE [body EXCEPT !.updatingFromGUI[i] = FALSE]

\* files.set(key, content) on the map of session i, then its observer
shareSet(st, i, key, content, fails) ==
    handleGUIChanges([st EXCEPT !.files[i][key] = content], i, key,
                     IF st.files[i][key] = Absent THEN "add" ELSE "update",
                     fails)

\* files.delete(key) on the map of session i, then its observer
shareDelete(st, i, key, fails) ==
    handleGUIChanges([st EXCEPT !.files[i][key] = Absent], i, key, "delete",
                     fails)

\* history: what the last step did
NoteShare(op, i, p, st) ==
    [op |-> op, intf |-> i, key |-> p, action |-> st.action,
     failed |-> st.failed]

\* createSession has run for both interfaces: getAllFiles has loaded the
\* existing files each may see, and the watcher watches these files and,
\* for an interface without a `files` list, the whole working directory
\* (ignoreInitial: nothing is reported for the files that exist)
InitShare ==
    /\ config \in DiffConfigs
    /\ disk \in [Paths -> {Absent, 1}]
    /\ files = [i \in Interfaces |->
                  [p \in Paths |-> IF allowed(config[i], p) THEN disk[p]
                                   ELSE Absent]]
    /\ sessionWatch = [i \in Interfaces |->
                         IF config[i].hasFiles
                         THEN {p \in Paths : files[i][p] # Absent}
                         ELSE Paths]
    /\ watchEvents = [i \in Interfaces |-> NoEvents]
    /\ updatingFromGUI = [i \in Interfaces |-> FALSE]
    /\ pc = "running"
    /\ nLocal = 0
    /\ nRemote = 0
    /\ last = NoteShare("init", 0, <<>>, ShareRegs)
    /\ intfFiles = <<>> /\ paths = {} /\ diff = "none" /\ WRITES = {}
    /\ timers = <<>> /\ fsEvents = <<>> /\ crashed = FALSE
    /\ fingerprint = <<>> /\ echo = <<>> /\ prevChange = <<>>
    /\ author = <<>> /\ baseFiles = <<>>
    /\ git = <<>> /\ headFiles = <<>> /\ metadata = <<>> /\ provider = <<>>
    /\ watcher = <<>> /\ exitCode = NoExit /\ teardownLog = <<>>
    /\ destroyThrows = {}
    /\ PureOff
    /\ WatchOff

ShareFrame ==
    UNCHANGED <<intfFiles, paths, diff, WRITES, timers, fsEvents, crashed,
                fingerprint, echo, prevChange, author, baseFiles, config, git,
                headFiles, metadata, provider, watcher, pc, exitCode,
                teardownLog, destroyThrows, sessionWatch, pureVars, watchVars>>

\* the registers become the state
ShareStep(op, i, p, st) ==
    /\ files' = st.files
    /\ disk' = st.disk
    /\ watchEvents' = st.watchEvents
    /\ updatingFromGUI' = st.updatingFromGUI
    /\ last' = NoteShare(op, i, p, st)
    /\ ShareFrame

\* a transaction of a peer sets key p of the map of session i (the changes
\* from outside, a peer's and the user's, are at most MaxEdits in a run)
ShareRemoteSet(i, p, c, fails) ==
    /\ nLocal + nRemote < MaxEdits
    /\ nRemote' = nRemote + 1
    /\ nLocal' = nLocal
    /\ ShareStep("remoteSet", i, p, shareSet(ShareRegs, i, p, c, fails))

\* a transaction of a peer deletes key p of the map of session i
ShareRemoteDelete(i, p, fails) ==
    /\ nLocal + nRemote < MaxEdits
    /\ files[i][p] # Absent
    /\ nRemote' = nRemote + 1
    /\ nLocal' = nLocal
    /\ ShareStep("remoteDelete", i, p, shareDelete(ShareRegs, i, p, fails))

\* somebody saves file p with content c
ShareEdit(p, c) ==
    /\ nLocal + nRemote < MaxEdits
    /\ nLocal' = nLocal + 1
    /\ nRemote' = nRemote
    /\ ShareStep("diskEdit", 0, p,
                 [ShareRegs EXCEPT
                     !.disk[p] = c,
                     !.watchEvents = noticeAll(@, p, disk[p] = Absent, FALSE)])

\* somebody deletes file p
ShareUnlink(p) ==
    /\ nLocal + nRemote < MaxEdits
    /\ disk[p] # Absent
    /\ nLocal' = nLocal + 1
    /\ nRemote' = nRemote
    /\ ShareStep("diskUnlink", 0, p,
                 [ShareRegs EXCEPT
                     !.disk[p] = Absent,
                     !.watchEvents = noticeAll(@, p, FALSE, TRUE)])

\* the watcher of session i emits `event` for p: the registers the
\* callback starts with
Emitted(i, p, event) ==
    [ShareRegs EXCEPT !.watchEvents[i][p] = Tail(@)]

\* watcher.on('change')
shareOnChange(st, i, p, fails) ==
    IF st.updatingFromGUI[i] THEN st
    ELSE IF ~allowed(config[i], p) THEN st
    ELSE IF st.disk[p] # Absent /\ st.disk[p] # st.files[i][p]
    THEN shareSet(st, i, p, st.disk[p], fails)
    ELSE st

\* watcher.on('add')
shareOnAdd(st, i, p, fails) ==
    IF st.updatingFromGUI[i] THEN st
    ELSE IF ~allowed(config[i], p) THEN st
    ELSE IF st.disk[p] # Absent /\ st.files[i][p] = Absent
    THEN shareSet(st, i, p, st.disk[p], fails)
    ELSE st

\* watcher.on('unlink')
shareOnUnlink(st, i, p, fails) ==
    IF st.updatingFromGUI[i] THEN st
    ELSE IF st.files[i][p] # Absent THEN shareDelete(st, i, p, fails)
    ELSE st

\* chokidar calls the listener of the event that waits first for (i, p)
shareWatcher(i, p, fails) ==
    /\ watchEvents[i][p] # <<>>
    /\ UNCHANGED <<nLocal, nRemote>>
    /\ LET event == Head(watchEvents[i][p])
           st == Emitted(i, p, event)
       IN ShareStep(event, i, p,
              IF event = "change" THEN shareOnChange(st, i, p, fails)
              ELSE IF event = "add" THEN shareOnAdd(st, i, p, fails)
              ELSE shareOnUnlink(st, i, p, fails))

NextShare ==
    \/ \E i \in Interfaces, p \in Paths, c \in Content, fails \in BOOLEAN :
          ShareRemoteSet(i, p, c, fails)
    \/ \E i \in Interfaces, p \in Paths, fails \in BOOLEAN :
          ShareRemoteDelete(i, p, fails)
    \/ \E p \in Paths, c \in Content : ShareEdit(p, c)
    \/ \E p \in Paths : ShareUnlink(p)
    \/ \E i \in Interfaces, p \in Paths, fails \in BOOLEAN :
          shareWatcher(i, p, fails)

SpecShare == InitShare /\ [][NextShare]_vars

\* ======================================= `connect` with one stimulus
\* two interfaces that declare *.yml with any of the permissions, with and
\* without the --diff option
AnyPermissionScenarios ==
    { [files |-> <<<<d1>>, <<d2>>>>, paths |-> {P_yml}, diff |-> o] :
        d1 \in {D_yml_r, D_yml_w, D_yml_rw},
        d2 \in {D_yml_r, D_yml_w, D_yml_rw},
        o \in {"none", "main"} }

InitOne == InitWith(AnyPermissionScenarios)

\* one local edit or one change by a peer in the whole run, at any moment
NextOne ==
    \/ /\ nLocal + nRemote = 0
       /\ \/ \E p \in paths, c \in Content : LocalEdit(p, c)
          \/ \E p \in paths : LocalUnlink(p)
          \/ \E i \in Interfaces, p \in paths, c \in Content :
                RemoteSet(i, p, c)
          \/ \E i \in Interfaces, p \in paths : RemoteDelete(i, p)
    \/ \E p \in paths : watcherAll(p)
    \/ debouncedAdd
    \/ debouncedChange
    \/ debouncedWriteFile

SpecOne == InitOne /\ [][NextOne]_vars /\ TimerFairness

\* =================================================================== claims

ReadWrite(i) == intfFiles[i] = <<D_yml_rw>>
ReadOnly(i) == intfFiles[i] = <<D_yml_r>>
WriteOnly(i) == intfFiles[i] = <<D_yml_w>>

\* C1 (loop breaking): when debouncedChange runs for the `change` event that
\* a disk write of a remote-authored value by a read-write interface
\* produced (the file was not edited since), it makes no write to that
\* interface's document entry for the path.
C1_LoopBreaking ==
    (last.op = "change" /\ last.result = "ok")
        => \A i \in last.echoOf : ReadWrite(i) => i \notin last.sets

\* C2 (as stated): when debouncedChange runs a second time for a path whose
\* file was not changed since the first run, and no remote change of the
\* entry came in between, the second run writes nothing to the entry.
C2_SecondFiringWritesNothing ==
    (last.op = "change" /\ last.result = "ok")
        => \A i \in Interfaces : last.prev[i] >= 0 => i \notin last.sets

\* C2 (amended): over two such runs at most one write to the entry is made,
\* and the second run writes nothing whenever the first one compared the
\* disk content with the entry (was not skipped by a suppression record).
C2_AtMostOneWrite ==
    (last.op = "change" /\ last.result = "ok")
        => \A i \in Interfaces :
              /\ last.prev[i] \in {0, 1} => i \notin last.sets
              /\ last.prev[i] >= 0 =>
                    (IF last.prev[i] = 1 THEN 1 ELSE 0)
                    + (IF i \in last.sets THEN 1 ELSE 0) <= 1

C2_Witness ==
    /\ last.op = "change"
    /\ last.result = "ok"
    /\ \E i \in Interfaces : last.prev[i] = 1 /\ i \notin last.sets
                             /\ files[i][last.key] = disk[last.key]

\* C3 (permission gating): the write handler of an interface declared with
\* read permission only never writes the disk, whatever its document holds.
C3_ReadOnlyNeverWritesDisk ==
    (last.op = "write" /\ ReadOnly(last.intf))
        => (last.result = "denied" /\ ~last.wrote)

C3_Witness ==
    /\ last.op = "write"
    /\ ReadOnly(last.intf)
    /\ last.key = P_yml
    /\ author[last.intf][last.key] = "remote"
    /\ disk[last.key] # Absent
    /\ files[last.intf][last.key] \notin {Absent, disk[last.key]}

\* C4 (as stated): with R declared `*.yml r` and W declared `*.yml w`, the
\* change event that follows W's disk write of a remote update leaves R's
\* document entry for the path as it was.
C4_ReaderUntouchedByEcho ==
    (last.op = "change" /\ last.result = "ok"
       /\ \E w \in last.echoOf : WriteOnly(w))
        => \A r \in Interfaces : ReadOnly(r) => r \notin last.sets

\* C4 (amended): W's write handler puts the remote value on disk and sets no
\* document entry itself; the change event that this write produces then
\* brings R's entry to the content that was written.
C4_WriterWritesReaderFollows ==
    /\ (last.op = "write" /\ last.result = "written"
          /\ WriteOnly(last.intf))
         => (disk[last.key] = files[last.intf][last.key] /\ last.sets = {})
    /\ (last.op = "change" /\ last.result = "ok"
          /\ \E w \in last.echoOf : WriteOnly(w))
         => \A r \in Interfaces :
               ReadOnly(r) => files[r][last.key] = disk[last.key]

C4_Witness ==
    /\ last.op = "change"
    /\ last.result = "ok"
    /\ \E w \in last.echoOf : WriteOnly(w) /\ fingerprint[w][last.key] = disk[last.key]
    /\ \E r \in Interfaces : ReadOnly(r) /\ r \in last.sets

\* C5 (scenario A, local side): after debouncedAdd or debouncedChange has
\* run for api.yml, the entry of the read-only interface R equals the disk
\* content, and no entry of the write-only interface W is ever set locally.
C5_ReaderMirrorsDiskWriterUntouched ==
    /\ (last.op \in {"add", "change"} /\ last.result = "ok")
         => \A i \in Interfaces :
               /\ (ReadOnly(i) /\ last.key = P_yml)
                     => files[i][last.key] = disk[last.key]
               /\ WriteOnly(i) => (i \notin last.sets /\ i \notin last.base)
    /\ \A i \in Interfaces, p \in Paths :
          WriteOnly(i) => author[i][p] # "local"

C5_Witness ==
    /\ last.op = "change"
    /\ last.result = "ok"
    /\ last.key = P_yml
    /\ \E r, w \in Interfaces :
          /\ ReadOnly(r) /\ r \in last.sets
          /\ WriteOnly(w) /\ files[w][last.key] # disk[last.key]

\* no glob of any declaration of any interface matches the path
NoGlobMatches(path) ==
    \A i \in Interfaces : \A k \in 1..Len(intfFiles[i]) :
        ~minimatch(path, fileString(intfFiles[i][k]).glob)

\* C6 (scenario D): debouncedAdd and debouncedChange, run for a path that no
\* declared glob matches, set no entry of any `files` or `base-files` map.
C6_UnmatchedPathWritesNothing ==
    (last.op \in {"add", "change"} /\ NoGlobMatches(last.key))
        => /\ last.sets = {} /\ last.base = {}
           /\ \A i \in Interfaces : /\ author[i][last.key] # "local"
                                    /\ baseFiles[i][last.key] = Absent

C6_Witness ==
    /\ last.op \in {"add", "change"}
    /\ last.result = "ok"
    /\ NoGlobMatches(last.key)
    /\ diff = "main"
    /\ GitShow(last.key) # Absent
    /\ \E i \in Interfaces : files[i][last.key] # disk[last.key]

\* C7 (origin filtering): a value that this process itself put into a
\* document is never written to disk by the remote-to-local handler.
C7_LocalOriginNeverWritten ==
    (last.op = "write" /\ last.wrote)
        => author[last.intf][last.key] = "remote"

\* C8 (record lifetime): once debouncedChange has run for a path, no
\* suppression record for that path is left in WRITES.
C8_RecordGoneAfterChange ==
    (last.op = "change" /\ last.result = "ok")
        => \A i \in Interfaces : WritesKey(i, last.key) \notin WRITES

\* C9 (content-conditional suppression): debouncedChange skips an interface
\* because of a record only when the disk content it read is the content
\* that the remote-triggered write put on disk.
C9_SkipOnlyOnMatchingContent ==
    (last.op = "change" /\ last.result = "ok")
        => \A i \in last.skipped : last.fp[i] = disk[last.key]

\* C10 (isolation between sessions): debouncedChange skips an interface only
\* because of a record that this interface's own write handler made, and the
\* records in WRITES are exactly those made by an interface's write handler
\* and not yet consumed by a skip of that same interface.
C10_RecordsArePerInterface ==
    /\ (last.op = "change" /\ last.result = "ok")
         => \A i \in last.skipped : last.fp[i] # NoFingerprint
    /\ \A i \in Interfaces, p \in Paths :
          (WritesKey(i, p) \in WRITES) <=> (fingerprint[i][p] # NoFingerprint)

C10_Witness ==
    /\ last.op = "change"
    /\ last.result = "ok"
    /\ \E a, b \in Interfaces :
          /\ a # b
          /\ a \in last.skipped
          /\ hasPermission("w", intfFiles[b], last.key)
          /\ b \in last.sets

\* C11 (one timer per session and path): a pending timer of
\* debouncedWriteFile that was set for interface i and path p stays pending
\* until it runs (or is replaced by a later timer of the same interface and
\* path); an event of another interface never takes it away.
C11_NoCrossSessionCancel ==
    [][\A k \in 1..Len(timers) :
          timers[k].fn = "write" =>
             \/ \E j \in 1..Len(timers') : timers'[j] = timers[k]
             \/ /\ last'.op = "write"
                /\ last'.key = timers[k].key
                /\ last'.intf = timers[k].intf]_vars

\* C12 (pending states exclude each other): a pending timer of a local
\* handler (debouncedAdd, debouncedChange) and a pending timer of the remote
\* write handler (debouncedWriteFile) never exist for one path at one time.
C12_PendingExclusive ==
    \A j, k \in 1..Len(timers) :
        (timers[j].key = timers[k].key /\ timers[j].fn = "write")
            => timers[k].fn = "write"

\* what each declaration of Declarations says, read off its text: the files
\* of Paths its glob matches and the permissions it grants
Grants(decl) ==
    IF decl = D_yml_r THEN [files |-> {P_yml}, permissions |-> {"r"}]
    ELSE IF decl = D_yml_w THEN [files |-> {P_yml}, permissions |-> {"w"}]
    ELSE IF decl = D_yml_rw THEN [files |-> {P_yml}, permissions |-> {"r", "w"}]
    ELSE IF decl = D_txt_r THEN [files |-> {P_txt}, permissions |-> {"r"}]
    ELSE IF decl = D_txt_w THEN [files |-> {P_txt}, permissions |-> {"w"}]
    ELSE IF decl = D_yml_map_w THEN [files |-> {P_yml}, permissions |-> {"w"}]
    ELSE [files |-> {P_yml, P_txt}, permissions |-> {"r"}]

\* C13 (permission predicate): hasPermission(perm, declarations, path) is
\* true exactly when one single declaration both has a glob the path
\* satisfies and lists perm in its own permissions; the call changes nothing
\* but its result.
C13_PermissionPerDeclaration ==
    (pureIn.fn = "hasPermission" /\ pureOut.done)
        => pureOut.value = (\E k \in 1..Len(pureIn.patterns) :
                         /\ pureIn.file \in Grants(pureIn.patterns[k]).files
                         /\ pureIn.permission
                               \in Grants(pureIn.patterns[k]).permissions)

\* a glob match from one declaration, the permission from another: refused
C13_Witness ==
    /\ pureIn.fn = "hasPermission"
    /\ pureOut = Returned(FALSE)
    /\ \E j, k \in 1..Len(pureIn.patterns) :
          /\ pureIn.file \in Grants(pureIn.patterns[j]).files
          /\ pureIn.permission \in Grants(pureIn.patterns[k]).permissions

\* ---------------------------------------------------- the diff snapshot
Count(list, x) == Cardinality({k \in 1..Len(list) : list[k] = x})

\* handleDiff has returned and the working directory is as it found it
AtSnapshot == pc = "running" /\ nLocal = 0

\* the committed difference between the base and the head branch
CommittedDiff ==
    {p \in Paths : git.show[BaseBranch][p] # git.show[HeadBranch][p]}

\* the tracked files that differ, in the working directory, from the base
WorkingDiff ==
    {p \in Paths : /\ \/ git.show[BaseBranch][p] # Absent
                      \/ git.show[HeadBranch][p] # Absent
                   /\ disk[p] # git.show[BaseBranch][p]}

SnapshotDiff ==
    CommittedDiff \cup (IF git.current = HeadBranch THEN WorkingDiff ELSE {})

\* the interface may read the path: it has no `files` list, or lists it
Permitted(i, p) ==
    \/ ~config[i].hasFiles
    \/ p \in {config[i].files[k] : k \in 1..Len(config[i].files)}

\* what the head of path p is at snapshot time
HeadContent(p) ==
    IF git.current = HeadBranch THEN disk[p] ELSE git.show[HeadBranch][p]

\* C14 (as stated): every path of the committed difference, and in
\* working-directory mode every path of the uncommitted difference, is in
\* the changed-file set of every diff session exactly once.
C14_EveryDiffPathOnce ==
    AtSnapshot =>
        \A i \in Interfaces : \A p \in SnapshotDiff :
            Count(metadata[i].changedFiles, p) = 1

\* C14 (amended): the changed-file set of a session holds exactly the paths
\* of those differences that the interface's `files` list admits (all of
\* them when it has no list), each once.
C14_EveryPermittedDiffPathOnce ==
    AtSnapshot =>
        \A i \in Interfaces : \A p \in Paths :
            Count(metadata[i].changedFiles, p) =
                (IF p \in SnapshotDiff /\ Permitted(i, p) THEN 1 ELSE 0)

\* a path that both git listings name, and a path the second interface's
\* list does not admit
C14_Witness ==
    /\ AtSnapshot
    /\ git.current = HeadBranch
    /\ \E p \in CommittedDiff \cap WorkingDiff :
          Count(metadata[1].changedFiles, p) = 1
    /\ \E q \in SnapshotDiff :
          ~Permitted(2, q) /\ Count(metadata[2].changedFiles, q) = 0
    /\ metadata[2].changedFiles # <<>>

\* C15 (scenario B): the head branch is checked out and n.txt is modified
\* and not committed: the changed files include n.txt, base[n.txt] is the
\* content committed at the base branch and head[n.txt] the content on disk.
C15_UncommittedChangeInSnapshot ==
    (/\ AtSnapshot
     /\ git.current = HeadBranch
     /\ disk[P_txt] # Absent
     /\ disk[P_txt] # git.show[HeadBranch][P_txt])
        => \A i \in Interfaces :
              /\ Count(metadata[i].changedFiles, P_txt) = 1
              /\ baseFiles[i][P_txt] = git.show[BaseBranch][P_txt]
              /\ headFiles[i][P_txt] = disk[P_txt]

C15_Witness ==
    /\ AtSnapshot
    /\ git.current = HeadBranch
    /\ git.show[HeadBranch][P_txt] = 1
    /\ disk[P_txt] = 2
    /\ git.show[HeadBranch][P_yml] = git.show[BaseBranch][P_yml]
    /\ disk[P_yml] = git.show[HeadBranch][P_yml]
    /\ \A i \in Interfaces : headFiles[i][P_txt] = 2 /\ baseFiles[i][P_txt] = 1

\* C16 (absence maps to empty content): for a changed path that does not
\* exist at the base branch base[path] is '' and head[path] is its content;
\* for a changed path absent at the head (absent on disk in
\* working-directory mode) head[path] is ''; and unless a git diff command
\* itself fails every session is created (no exit while loading).
C16_AbsenceIsEmptyString ==
    /\ AtSnapshot =>
          \A i \in Interfaces : \A p \in Paths :
              Count(metadata[i].changedFiles, p) > 0 =>
                 /\ git.show[BaseBranch][p] = Absent
                       => baseFiles[i][p] = EmptyString
                 /\ HeadContent(p) # Absent
                       => headFiles[i][p] = HeadContent(p)
                 /\ HeadContent(p) = Absent
                       => headFiles[i][p] = EmptyString
    /\ (pc # "start" /\ ~git.diffThrows)
          => \A i \in Interfaces : provider[i] # "none"

C16_Witness ==
    /\ AtSnapshot
    /\ \E i \in Interfaces, p \in Paths :
          /\ Count(metadata[i].changedFiles, p) > 0
          /\ git.show[BaseBranch][p] = Absent
          /\ baseFiles[i][p] = EmptyString
          /\ headFiles[i][p] \in Content
    /\ \E i \in Interfaces, p \in Paths :
          /\ Count(metadata[i].changedFiles, p) > 0
          /\ HeadContent(p) = Absent
          /\ headFiles[i][p] = EmptyString

\* ------------------------------------------- the live part of a snapshot
\* chokidar emits what it has noticed and the handler of the event runs:
\* while an event is waiting, some handler runs
DiffFairness ==
    WF_vars(\E i \in Interfaces, p \in Paths :
                \/ watcherOnChange(i, p)
                \/ watcherOnUnlink(i, p)
                \/ watcherOnAdd(i, p))

SpecDiffLive == SpecDiff /\ DiffFairness

HandlerRan == last.op \in {"change", "unlink", "add"}

\* C17 (base is frozen): once handleDiff has populated the base maps, no
\* step (no filesystem event, no watcher callback) changes any of their
\* entries.
C17_BaseIsFrozen == [][pc # "start" => baseFiles' = baseFiles]_vars

\* a watcher callback has just changed the head entry of a changed path
C17_Witness ==
    /\ HandlerRan
    /\ baseFiles[last.intf][last.key] # Absent
    /\ headFiles[last.intf][last.key] # last.before

\* C18 (head is live only in working-directory mode): when the head branch
\* is not the checked-out one no watcher is made and the head maps never
\* change after the snapshot; when it is, the head entry of every changed
\* path whose file exists eventually is, and stays, the content the file
\* has on disk (while the process runs and once the edits have stopped).
C18_HeadLiveOnlyInWorkingDirectory ==
    /\ [](git.current # HeadBranch
             => \A i \in Interfaces : watcher[i] = "null")
    /\ [][(pc # "start" /\ git.current # HeadBranch)
             => headFiles' = headFiles]_vars
    /\ <>[](pc = "running" =>
               \A i \in Interfaces, p \in Paths :
                   (Watches(i, p) /\ disk[p] # Absent)
                       => headFiles[i][p] = disk[p])

C18_Witness ==
    /\ last.op = "change"
    /\ git.current = HeadBranch
    /\ headFiles[last.intf][last.key] = disk[last.key]
    /\ last.before \notin {Absent, disk[last.key]}

\* C19 (diff permission filter): every key of the base map and of the head
\* map of an interface is a path the interface may read, at snapshot time
\* and after every live update.
C19_MapKeysArePermitted ==
    \A i \in Interfaces, p \in Paths :
        (baseFiles[i][p] # Absent \/ headFiles[i][p] # Absent)
            => Permitted(i, p)

\* the session of the interface that lists only n.txt has had a live
\* update while a.yml, a changed file of the other session, is not in it
C19_Witness ==
    /\ HandlerRan
    /\ last.intf = 2
    /\ headFiles[2][last.key] # last.before
    /\ Count(metadata[1].changedFiles, P_yml) = 1
    /\ baseFiles[2][P_yml] = Absent
    /\ headFiles[2][P_yml] = Absent

\* C20 (as stated): for every session that has a watcher, the watcher is
\* closed before the provider is destroyed.
C20_WatcherClosedBeforeDestroy ==
    \A k \in 1..Len(teardownLog) :
        (teardownLog[k][1] = "destroy" /\ watcher[teardownLog[k][2]] # "null")
            => \E j \in 1..(k - 1) :
                  teardownLog[j] = <<"close", teardownLog[k][2]>>

\* C20 (amended): cleanup destroys the provider of its session first and
\* closes the watcher after it; every cleanup runs inside the signal
\* handler, which then ends the process, so once a provider has been
\* destroyed no watcher event is handled any more.
C20_DestroyThenCloseThenExit ==
    /\ \A k \in 1..Len(teardownLog) :
          teardownLog[k][1] = "close"
             => \E j \in 1..(k - 1) :
                   teardownLog[j] = <<"destroy", teardownLog[k][2]>>
    /\ teardownLog # <<>>
          => (pc = "exited" /\ last.op \in {"SIGINT", "handleDiff"})

\* shutdown with an event still waiting in a watcher
C20_Witness ==
    /\ pc = "exited"
    /\ exitCode = 0
    /\ \E i \in Interfaces, p \in Paths :
          /\ provider[i] = "destroyed"
          /\ watcher[i] = "closed"
          /\ watchEvents[i][p] # <<>>

\* C21 (teardown isolation): when the signal handler has ended the process,
\* the cleanup of every session has been attempted (its provider.destroy()
\* was called), whichever cleanup threw, and the exit code is 0.
C21_TeardownIsolation ==
    (pc = "exited" /\ last.op = "SIGINT")
        => /\ \A i \in 1..Len(config) :
                 \E k \in 1..Len(teardownLog) : teardownLog[k] = <<"destroy", i>>
           /\ exitCode = 0

\* ------------------------------------------------- the manager's URL map
\* handleDiff has created every session
SessionsCreated == pc = "running" /\ last.op = "handleDiff"

Managers == {i \in 1..Len(config) : config[i].manager}

\* the {name -> url} pairs of the sessions that are not managers
NonManagerUrls ==
    {<<config[j].name, generateUrl(j)>> : j \in (1..Len(config)) \ Managers}

\* the pairs a `metadata` map holds under `interfaceUrls`
UrlPairs(i) ==
    {<<n, metadata[i].interfaceUrls[n]>> :
        n \in {m \in Names : metadata[i].interfaceUrls[m] # Absent}}

\* C22 (manager aggregation): when some interface is a manager and every
\* session has been created, the metadata of each manager session holds
\* under `interfaceUrls` exactly the {name -> url} pairs of the sessions
\* that are not managers.
C22_ManagerHoldsNonManagerUrls ==
    (SessionsCreated /\ Managers # {})
        => \A i \in Managers :
              /\ metadata[i].hasInterfaceUrls
              /\ UrlPairs(i) = NonManagerUrls

\* C23 (per-path failure isolation): a handler that fails for one path (its
\* file is not on disk when the timer runs) leaves the process running, so
\* that the events of other paths are still handled.
C23_FailureIsConfined ==
    last.result = "threw" => ~crashed

\* C24 (exit codes): the validation of the configuration ends the process
\* with code 1 when --diff is given outside a git repository and when no
\* interfaces are configured, and never ends it with code 0 (code 0 is for
\* a graceful shutdown and for a diff without changes).
C24_ExitCodes ==
    (pureIn.fn = "validateConfig" /\ pureOut.done)
        => /\ ((pureIn.diff /\ ~pureIn.isGitRepo) \/ ~pureIn.hasInterfaces)
                 => pureOut.value = 1
           /\ pureOut.value # 0

\* C27 (debounce considers only the final state): the raw events of one
\* burst for a path lead to one run of a local handler: when debouncedAdd or
\* debouncedChange has run for a path, no other timer of a local handler for
\* that path is left pending from the same burst.
C27_OneRunPerBurst ==
    (last.op \in {"add", "change"})
        => \A k \in 1..Len(timers) :
              timers[k].key = last.key => timers[k].fn = "write"

\* C29 (remote no-op): when the timer of debouncedWriteFile runs for a path
\* whose file holds the value the document has for it, the run writes
\* nothing to disk, makes no suppression record and sets no entry of any
\* document map.
C29_RemoteNoop ==
    [][(/\ last'.op = "write"
        /\ disk[last'.key] # Absent
        /\ files[last'.intf][last'.key] = disk[last'.key])
          => /\ last'.result \in {"noop", "denied"}
             /\ disk' = disk
             /\ fsEvents' = fsEvents
             /\ WRITES' = WRITES
             /\ files' = files
             /\ baseFiles' = baseFiles]_vars

\* a peer has set the value the file already has, and the interface may
\* write the file
C29_Witness ==
    /\ last.op = "write"
    /\ last.result = "noop"
    /\ author[last.intf][last.key] = "remote"
    /\ files[last.intf][last.key] = disk[last.key]
    /\ hasPermission("w", intfFiles[last.intf], last.key)

\* C30 (suppression records track disk writes): a run of
\* debouncedWriteFile that writes the document value to disk leaves a
\* record for (document, path), and a record for (document, path) exists
\* only when such a write of a content was made and debouncedChange has not
\* visited that document for the path since.
C30_RecordsTrackDiskWrites ==
    /\ (last.op = "write" /\ last.wrote)
          => WritesKey(last.intf, last.key) \in WRITES
    /\ \A i \in Interfaces, p \in Paths :
          WritesKey(i, p) \in WRITES => fingerprint[i][p] \in Content

\* C25 (a failing watch is not fatal): when the watcher of an interface's
\* file reports an error, the error is logged and the process is not ended.
C25_WatchErrorNotFatal ==
    (pureIn.fn = "watcherOnError" /\ pureOut.done)
        => pureOut.value = NoExit

\* ------------------------------------------------ re-arming of a watch
\* the open watchers that watch the file path p names now
LiveWatchers(p) ==
    {w \in 1..Len(fsWatchers) :
        /\ fsWatchers[w].open
        /\ fsWatchers[w].path = p
        /\ fsWatchers[w].inode = inode[p]}

\* no event waits in a watcher and no timer is pending
WatchQuiet ==
    /\ \A w \in 1..Len(fsWatchers) : fsWatchers[w].events = <<>>
    /\ \A p \in Paths : watchTimeout[p] = "none" /\ rearm[p] = 0

\* C26 (watch re-arming): once the events of a replacement of a watched
\* file have been handled and the file exists, an open watcher watches the
\* file the path names now (so that later changes reach the head map) and
\* head[path] is the content of the file; and never do two open watchers
\* watch one path.
C26_WatchRearmed ==
    /\ \A p \in Paths :
          (pc = "running" /\ WatchQuiet /\ watchedFiles[p] # 0
             /\ disk[p] # Absent)
            => /\ LiveWatchers(p) # {}
               /\ headFiles[WatchSession][p] = disk[p]
    /\ \A p \in Paths :
          Cardinality({w \in 1..Len(fsWatchers) :
                          fsWatchers[w].open /\ fsWatchers[w].path = p}) <= 1

\* the pending timers that are not for path `key`, in the order they were set
OtherTimers(q, key) == SelectSeq(q, LAMBDA t : t.key # key)

\* C28 (debounce independence across paths): a step that is about path p
\* (an event, a handler run, a remote change) leaves the pending timers of
\* every other path as they are, in number, arguments and order; and every
\* pending timer eventually runs, unless the process has ended.
C28_PathsAreIndependent ==
    /\ [][OtherTimers(timers', last'.key) = OtherTimers(timers, last'.key)]_vars
    /\ <>[](crashed \/ timers = <<>>)

\* chokidar has emitted an event for one path while a timer of the other
\* path, set before, is pending
C28_Witness ==
    /\ last.op = "emit"
    /\ last.result \in {"add", "change"}
    /\ \E j, k \in 1..Len(timers) :
          /\ j < k
          /\ timers[k].key = last.key
          /\ timers[j].key # last.key
          /\ timers[j].fn = timers[k].fn

\* C31 (idempotence of `added`): when the timer of debouncedAdd runs for a
\* path whose disk content equals the entry of an interface's files map,
\* the handler does not set that entry.
C31_AddedIsIdempotent ==
    [][(last'.op = "add" /\ last'.result = "ok")
          => \A i \in Interfaces :
                (files[i][last'.key] = disk[last'.key]) => i \notin last'.sets]_vars

\* C32 (live deletion in diff mode): in working-directory mode, once the
\* events of the deletion of a changed path have been handled and the file
\* is still absent, the entry of the path in the head map is the empty
\* string.
C32_DeletionReachesHead ==
    \A p \in Paths :
        (pc = "running" /\ WatchQuiet /\ disk[p] = Absent
           /\ headFiles[WatchSession][p] # Absent)
          => headFiles[WatchSession][p] = EmptyString

\* C33 (declaration parsing): `<glob> <permissions>` and
\* `<glob> <contentMapping> <permissions>` parse to the same glob and the
\* same permissions, which are the last token; the mapping is null in the
\* first form and the middle token in the second.
C33_BothFormsParseAlike ==
    (pureIn.fn = "fileString" /\ pureOut.done)
        => /\ pureOut.value.short.glob = pureIn.glob
           /\ pureOut.value.long.glob = pureIn.glob
           /\ pureOut.value.short.permissions = pureIn.permissions
           /\ pureOut.value.long.permissions = pureIn.permissions
           /\ pureOut.value.short.map = <<>>
           /\ pureOut.value.long.map = pureIn.map

\* both forms of a declaration whose mapping token is made of permission
\* letters have been parsed
C33_Witness ==
    /\ pureIn.fn = "fileString"
    /\ pureOut.done
    /\ pureIn.map = <<"r", "w">>
    /\ pureIn.permissions = <<"w">>
    /\ pureOut.value.long.permissions = <<"w">>

\* nothing is pending: no timer, no filesystem event chokidar has yet to emit
Quiescent ==
    /\ ~crashed
    /\ timers = <<>>
    /\ \A p \in Paths : fsEvents[p] = "none"

\* C34 (convergence): when every timer has run and nothing is pending, the
\* entry of path p in the files map of an interface with read and write
\* permission on p equals the content of p on disk (stated for a path that
\* exists on disk and has an entry).
C34_Convergence ==
    Quiescent =>
        \A i \in Interfaces, p \in paths :
            (/\ hasPermission("r", intfFiles[i], p)
             /\ hasPermission("w", intfFiles[i], p)
             /\ disk[p] # Absent
             /\ files[i][p] # Absent)
                => files[i][p] = disk[p]

\* C35 (no echo loop): after a single stimulus (one local edit or one
\* change by a peer), whatever the permissions of the interfaces, every
\* disk write a timer makes changes the content of the file, and the run
\* reaches a state, and stays in it, in which no timer is pending and no
\* filesystem event waits (or the process has ended).
C35_NoEchoLoop ==
    /\ [][(last'.op = "write" /\ last'.wrote)
            => disk'[last'.key] # disk[last'.key]]_vars
    /\ <>[](crashed \/ (timers = <<>> /\ \A p \in Paths : fsEvents[p] = "none"))

\* the write of a peer's value has been echoed by chokidar and the handler
\* has skipped the interface that made the write
C35_Witness ==
    /\ nRemote = 1
    /\ last.op = "change"
    /\ last.skipped # {}
    /\ timers = <<>>
    /\ \A p \in Paths : fsEvents[p] = "none"

\* the session has a `files` list and key p is not in it
NotListed(i, p) ==
    /\ config[i].hasFiles
    /\ \A k \in 1..Len(config[i].files) : config[i].files[k] # p

\* C36 (allowed-list gating of document changes): when the observer of a
\* session runs for a change of key p of its map (a peer's set or delete),
\* no file other than p is touched; when the session has a `files` list
\* that does not include p, no file is touched at all; when p is allowed
\* and the write or unlink does not fail, a set leaves the document value
\* in the file and a delete leaves no file.
C36_AllowedListGatesRemoteChanges ==
    [][(last'.op \in {"remoteSet", "remoteDelete"})
         => LET i == last'.intf
                p == last'.key
            IN /\ \A q \in Paths \ {p} : disk'[q] = disk[q]
               /\ NotListed(i, p) => disk' = disk
               /\ (~NotListed(i, p) /\ ~last'.failed)
                    => disk'[p] = files'[i][p]]_vars

\* a peer has set a key that the `files` list of the session does not
\* include, and the file of that name exists
C36_Witness ==
    /\ last.op = "remoteSet"
    /\ NotListed(last.intf, last.key)
    /\ disk[last.key] # Absent
    /\ files[last.intf][last.key] # disk[last.key]

\* C39 (the updatingFromGUI flag): the flag of every session is false in
\* every state between two handler runs, so also when a watcher callback
\* starts; the observer resets it when the write or the unlink has failed.
C39_FlagOnlyInsideObserver ==
    pc = "running" => \A i \in Interfaces : updatingFromGUI[i] = FALSE

\* the observer has run for a change whose disk write failed
C39_Witness ==
    /\ last.op = "remoteSet"
    /\ last.failed
    /\ updatingFromGUI[last.intf] = FALSE

\* C37 (snapshot map shape): while a diff session runs, the keys of its
\* base map, the keys of its head map and the paths of the `changedFiles`
\* list of its metadata are the same paths, at the snapshot and after
\* every watcher event.
C37_SnapshotMapShape ==
    pc = "running" =>
        \A i \in Interfaces, p \in Paths :
            /\ (baseFiles[i][p] # Absent) = (headFiles[i][p] # Absent)
            /\ (headFiles[i][p] # Absent)
                  = ArrayIncludes(metadata[i].changedFiles, p)

\* the unlink handler has marked a changed file as deleted in the head map
C37_Witness ==
    /\ pc = "running"
    /\ last.op = "unlink"
    /\ last.before \notin {Absent, EmptyString}
    /\ headFiles[last.intf][last.key] = EmptyString
    /\ ArrayIncludes(metadata[last.intf].changedFiles, last.key)

\* C38 (every session contributes its URL): when some interface is a
\* manager and every session has been created, the {name -> url} map the
\* managers get has one entry for every session, also for a diff session
\* without changed files and for sessions that share a name.
C38_OneUrlPerSession ==
    (SessionsCreated /\ Managers # {})
        => \A i \in Managers : Cardinality(UrlPairs(i)) = Len(config)

====
